---- MODULE Spec2Model ----
(***************************************************************************)
(* Data-to-geometry synthesis pipeline of memory-landscape:                *)
(*   featureMapping.ts   (remap, mapJourneyToFeatures, TerrainEngine)      *)
(*   pointCloudSphere.ts (PointCloudSphere.generate / update)              *)
(*                                                                         *)
(* Numbers.  JavaScript numbers are modelled in fixed point: the integer n *)
(* stands for n / Scale.  Products and quotients round toward minus        *)
(* infinity at 1/Scale.  Transcendental library functions (Math.sin,       *)
(* Math.cos, Math.acos, Math.sqrt, Math.pow) are modelled by integer       *)
(* approximations that are stated next to each operator.                   *)
(***************************************************************************)
EXTENDS Integers, Sequences, FiniteSets, TLC

VARIABLES
    data,       \* the JourneyData last passed to mapJourneyToFeatures
    now,        \* the wall clock, what new Date().getTime() returns
    bundles,    \* the FeatureBundles returned by mapJourneyToFeatures so far
    terrain,    \* the TerrainEngine's geometry and what generate was last given
    cloud,      \* the point cloud PointCloudSphere.generate returned last
    rmRange,    \* remap: the range arguments under test
    rmCalls,    \* remap: the calls made, <<v, result>>
    simplex,    \* the Simplexish instances, their fields
    noiseCalls, \* Simplexish: the calls made, arguments and result
    sound,      \* the SoundEngine's fields and the audio nodes it created
    cards,      \* the DataCardSystem's cards and the calls made on it
    focus,      \* TopographyScene: the focus state of the HUD
    camera      \* TopographyScene: pendingFocusId, focusState, the camera

vars ==
    <<data, now, bundles, terrain, cloud, rmRange, rmCalls, simplex, noiseCalls,
      sound, cards, focus, camera>>

mapVars == <<data, now, bundles>>

synthVars == <<terrain, cloud>>

remapVars == <<rmRange, rmCalls>>

noiseVars == <<simplex, noiseCalls>>

sceneVars == <<sound, cards, focus, camera>>

(***************************************************************************)
(* Fixed-point arithmetic                                                  *)
(***************************************************************************)
Scale == 1000

Min(a, b) == IF a <= b THEN a ELSE b

Max(a, b) == IF a >= b THEN a ELSE b

Abs(a) == IF a < 0 THEN -a ELSE a

\* const x = e; F(x): e is evaluated once and F uses its value
With(e, F(_)) == CHOOSE r \in {F(x) : x \in {e}} : TRUE

\* a * b on fixed-point numbers: floor(a * b / Scale), with a split into its
\* integer and fractional part so that the intermediate product stays small
FMul(a, b) == (a \div Scale) * b + ((a % Scale) * b) \div Scale

\* a / b on fixed-point numbers, b # 0
FDiv(a, b) == IF b < 0 THEN ((-a) * Scale) \div (-b) ELSE (a * Scale) \div b

(***************************************************************************)
(* featureMapping.ts helpers                                               *)
(***************************************************************************)
clamp01(v) == Min(Scale, Max(0, v))

\* THREE.MathUtils.clamp(v, lo, hi) = Math.max(lo, Math.min(hi, v))
clamp(v, lo, hi) == Max(lo, Min(hi, v))

\* the bug a missing clamp01 would be: out-of-domain inputs extrapolate
remapExtrapolating(v, inMin, inMax, outMin, outMax) ==
    outMin + FMul(FDiv(v - inMin, IF inMax - inMin = 0 THEN Scale ELSE inMax - inMin),
                  outMax - outMin)

\* the value that stands for NaN, below every number of the model
NaN == -1073741824

\* the bug of dividing by inMax - inMin unguarded: x / 0 is an infinity that
\* clamp01 saturates, 0 / 0 is NaN and stays NaN
remapUnguarded(v, inMin, inMax, outMin, outMax) ==
    IF inMax - inMin = 0
    THEN IF v = inMin THEN NaN ELSE IF v > inMin THEN outMax ELSE outMin
    ELSE outMin + FMul(clamp01(FDiv(v - inMin, inMax - inMin)), outMax - outMin)

\* inMax - inMin || 1: a zero denominator is replaced by 1
remap(v, inMin, inMax, outMin, outMax) ==
    outMin + FMul(clamp01(FDiv(v - inMin,
                               IF inMax - inMin = 0 THEN Scale ELSE inMax - inMin)),
                  outMax - outMin)

(***************************************************************************)
(* Library functions                                                       *)
(***************************************************************************)
\* Math.PI
Pi == 3142

\* Math.sin on fixed-point radians: Bhaskara's rational approximation
\* 16x(pi-x) / (5pi^2 - 4x(pi-x)) on [0, pi], odd and 2pi-periodic outside
Sin(a) ==
    LET r == a % (2 * Pi)
        x == IF r <= Pi THEN r ELSE r - Pi
        p == x * (Pi - x)
        b == (16 * p) \div ((5 * Pi * Pi - 4 * p) \div Scale)
    IN  IF r <= Pi THEN b ELSE -b

\* Math.cos
Cos(a) == Sin(a + Pi \div 2)

\* an optional field is <<>> (undefined) or <<v>>;  o ?? d
OrElse(o, d) == IF o = <<>> THEN d ELSE o[1]

SetMin(S) == CHOOSE m \in S : \A o \in S : m <= o

SetMax(S) == CHOOSE m \in S : \A o \in S : m >= o

\* THREE.Color.lerp(to, alpha), per channel
ColorLerp(c, to, alpha) == [k \in 1..3 |-> c[k] + FMul(to[k] - c[k], alpha)]

\* THREE.Color.multiply(tint), per channel
ColorMultiply(c, tint) == [k \in 1..3 |-> FMul(c[k], tint[k])]

(***************************************************************************)
(* Schema.  Dates are months since year 0 (getUTCFullYear = months \div 12)*)
(* and 0 stands for a missing or empty date string; year 0 stands for a    *)
(* missing year.                                                           *)
(***************************************************************************)
UTCFullYear(months) == months \div 12

\* clock is the value new Date().getTime() returns at the time of the call
midpointYear(l, clock) ==
    IF l.periodStart # 0 \/ l.periodEnd # 0
    THEN LET start == IF l.periodStart # 0 THEN l.periodStart ELSE clock
             end == IF l.periodEnd # 0 THEN l.periodEnd ELSE start
         IN  UTCFullYear((start + end) \div 2)
    ELSE l.year

PositiveYears(locs, clock) ==
    {midpointYear(locs[i], clock) :
        i \in {j \in DOMAIN locs : midpointYear(locs[j], clock) > 0}}

minYearOf(locs, clock) ==
    IF PositiveYears(locs, clock) # {} THEN SetMin(PositiveYears(locs, clock)) ELSE 2000

\* the bug of a fallback era that ends where it starts
maxYearOfNoEra(locs, clock) ==
    IF PositiveYears(locs, clock) # {} THEN SetMax(PositiveYears(locs, clock)) ELSE 2000

maxYearOf(locs, clock) ==
    IF PositiveYears(locs, clock) # {} THEN SetMax(PositiveYears(locs, clock)) ELSE 2025

\* const t = (year - minYear) / yearSpan
spiralT(year, minYear, maxYear) ==
    FDiv(year - minYear * Scale, Max(1, maxYear - minYear) * Scale)

\* year is fixed point (it may be the half-integer (minYear + maxYear) / 2)
timeSpiral(year, minYear, maxYear) ==
    LET t == spiralT(year, minYear, maxYear)
        angle == FMul(FMul(t, Pi), 3500)
        radius == remap(t, 0, Scale, 60 * Scale, 180 * Scale)
    IN  <<FMul(Cos(angle), radius), 0, FMul(Sin(angle), radius)>>

\* the bug of a linear language axis that never saturates
languageXLinear(languageBalance) ==
    -150 * Scale + FMul(FDiv(languageBalance + Scale, 2 * Scale), 300 * Scale)

\* const xLang: lang = clamp01((languageBalance + 1) / 2) remapped to -150..150
languageX(languageBalance) ==
    remap(clamp01(FDiv(languageBalance + Scale, 2 * Scale)), 0, Scale,
          -150 * Scale, 150 * Scale)

\* the bug of leaving out || (minYear + maxYear) / 2
representativeYearNoFallback(locs, i, clock) == midpointYear(locs[i], clock) * Scale

\* const year = midpointYear(loc) || (minYear + maxYear) / 2, in fixed point
representativeYear(locs, i, clock) ==
    IF midpointYear(locs[i], clock) # 0 THEN midpointYear(locs[i], clock) * Scale
    ELSE ((minYearOf(locs, clock) + maxYearOf(locs, clock)) * Scale) \div 2

\* <<jx, jz>> of the location at index idx (0-based)
layoutJitter(idx, isVisit) ==
    <<FMul(FMul(Sin(idx * 12917), 500) + (IF isVisit THEN 250 ELSE 0), 10 * Scale),
      FMul(FMul(Cos(idx * 9731), 500), 10 * Scale)>>

\* the body of locs.forEach((loc, idx) => ...) in positionFromData, idx = i - 1
layoutEntry(locs, i, clock) ==
    LET loc == locs[i]
        xLang == languageX(loc.languageBalance)
        tPos == timeSpiral(representativeYear(locs, i, clock),
                           minYearOf(locs, clock), maxYearOf(locs, clock))
        x == FMul(xLang, 700) + FMul(tPos[1], 300)
        z == tPos[3]
        j == layoutJitter(i - 1, loc.isVisit)
    IN  <<x + j[1], 0, z + j[2]>>

\* baseLayout.get(id): layout is a Map, a later location with the same id
\* overwrites the entry of an earlier one
positionFromData(locs, id, clock) ==
    LET last == SetMax({i \in DOMAIN locs : locs[i].id = id})
    IN  layoutEntry(locs, last, clock)

\* the bug of using the raw signals: nothing is clamped before the weighted sum
terrainFromLocationUnclamped(loc) ==
    LET intensity == loc.intensity
        valence == loc.valence
        significance == loc.significance
        durationYears == OrElse(loc.duration, Scale)
    IN  [elevationBias |-> significance * 18 + intensity * 14 + valence * 10,
         amplitude |-> remap(intensity, 0, Scale, 6 * Scale, 22 * Scale),
         roughness |-> remap(durationYears, 0, 18 * Scale, 180, 1100),
         erosion |-> remap(Scale - significance, 0, Scale, 120, 900),
         ridgeFactor |-> remap(Abs(valence), 0, Scale, 50, 950)]

terrainFromLocation(loc) ==
    LET intensity == clamp01(loc.intensity)
        valence == clamp(loc.valence, -1 * Scale, Scale)
        significance == clamp01(loc.significance)
        durationYears == OrElse(loc.duration, Scale)
    IN  [elevationBias |-> significance * 18 + intensity * 14 + valence * 10,
         amplitude |-> remap(intensity, 0, Scale, 6 * Scale, 22 * Scale),
         roughness |-> remap(durationYears, 0, 18 * Scale, 180, 1100),
         erosion |-> remap(Scale - significance, 0, Scale, 120, 900),
         ridgeFactor |-> remap(Abs(valence), 0, Scale, 50, 950)]

\* modFromDocument for a defined doc (memories.forEach only passes defined ones)
modFromDocument(doc) ==
    LET sentiment == OrElse(doc.sentiment, 0)
        lang == IF doc.language = "zh" THEN -1 ELSE IF doc.language = "en" THEN 1 ELSE 0
        ampMul == CASE doc.type = "receipt" -> 850
                    [] doc.type = "photo" -> 1250
                    [] doc.type = "letter" -> 1150
                    [] doc.type = "document" -> 950
                    [] OTHER -> Scale
        roughMul == CASE doc.type = "receipt" -> 1200
                      [] doc.type = "letter" -> 1250
                      [] doc.type = "document" -> 850
                      [] OTHER -> Scale
        ridgeMul == CASE doc.type = "photo" -> 1150
                      [] doc.type = "document" -> 900
                      [] OTHER -> Scale
        biasAdd == CASE doc.type = "receipt" -> FMul(sentiment, 3500)
                     [] doc.type = "photo" -> FMul(sentiment, 6 * Scale)
                     [] doc.type = "letter" -> FMul(sentiment, 5 * Scale)
                     [] doc.type = "document" -> FMul(sentiment, 2500)
                     [] OTHER -> 0
    IN  [ampMul |-> ampMul, roughMul |-> roughMul, ridgeMul |-> ridgeMul,
         biasAdd |-> biasAdd,
         colorTint |-> <<Scale + FMul(sentiment, 220), Scale + FMul(sentiment, 120),
                         Scale + lang * 120>>]

\* the hub pushed for one location (mapped.push at the top of the forEach body)
hubOf(loc, pos) ==
    LET tc == terrainFromLocation(loc)
    IN  [id |-> loc.id,
         pos |-> pos,
         baseColor |-> loc.color,
         labelOpacity |-> remap(loc.significance, 0, Scale, 350, Scale),
         haloOpacity |-> remap(loc.intensity, 0, Scale, 300, 950),
         labelScale |-> remap(loc.significance, 0, Scale, 900, 1600),
         elevationBias |-> tc.elevationBias,
         amplitude |-> tc.amplitude,
         roughness |-> tc.roughness,
         erosion |-> tc.erosion,
         ridgeFactor |-> tc.ridgeFactor,
         isVisit |-> loc.isVisit,
         parentLocationId |-> <<>>,
         memoryType |-> <<>>,
         memoryIndex |-> <<>>,
         memoryCount |-> <<>>]

\* the bug of numbering the child ids from 1
childIdOneBased(loc, idx) == loc.id \o "::mem-" \o ToString(idx + 1)

\* id: `${loc.id}::mem-${idx}`
childId(loc, idx) == loc.id \o "::mem-" \o ToString(idx)

\* the child pushed for memories[idx] (idx is 0-based as in the source)
childOf(loc, hub, idx) ==
    LET doc == loc.memories[idx + 1]
        n == Len(loc.memories)
        ringRadius == 8 * Scale + loc.intensity * 8
        angle == FMul(FDiv(idx * Scale, Max(1, n) * Scale), 2 * Pi)
                 + FMul(loc.languageBalance, 500)
        offsetX == FMul(Cos(angle), ringRadius)
        offsetZ == FMul(Sin(angle), ringRadius)
        offsetY == FMul(loc.valence, 2500) + FMul(OrElse(doc.sentiment, 0), 3500)
        mod == modFromDocument(doc)
    IN  [id |-> childId(loc, idx),
         pos |-> <<hub.pos[1] + offsetX, hub.pos[2] + offsetY, hub.pos[3] + offsetZ>>,
         baseColor |-> ColorMultiply(hub.baseColor, mod.colorTint),
         labelOpacity |-> FMul(hub.labelOpacity, 900),
         haloOpacity |-> FMul(hub.haloOpacity, 1050),
         labelScale |-> FMul(hub.labelScale, 850),
         elevationBias |-> hub.elevationBias + mod.biasAdd,
         amplitude |-> FMul(hub.amplitude, mod.ampMul),
         roughness |-> clamp(FMul(hub.roughness, mod.roughMul), 50, 1500),
         erosion |-> hub.erosion,
         ridgeFactor |-> clamp(FMul(hub.ridgeFactor, mod.ridgeMul), 10, 1500),
         isVisit |-> loc.isVisit,
         parentLocationId |-> <<loc.id>>,
         memoryType |-> <<doc.type>>,
         memoryIndex |-> <<idx>>,
         memoryCount |-> <<n>>]

\* the bug of pushing a location's children before its hub
mappedOfLocChildrenFirst(locs, i, clock) ==
    LET loc == locs[i]
        hub == hubOf(loc, positionFromData(locs, loc.id, clock))
    IN  [k \in 1..Len(loc.memories) |-> childOf(loc, hub, k - 1)] \o <<hub>>

\* one iteration of data.locations.forEach: the hub, then its children
mappedOfLoc(locs, i, clock) ==
    LET loc == locs[i]
        hub == hubOf(loc, positionFromData(locs, loc.id, clock))
    IN  <<hub>> \o [k \in 1..Len(loc.memories) |-> childOf(loc, hub, k - 1)]

RECURSIVE mappedFrom(_, _, _)
mappedFrom(locs, i, clock) ==
    IF i > Len(locs) THEN <<>>
    ELSE mappedOfLoc(locs, i, clock) \o mappedFrom(locs, i + 1, clock)

\* mappedById.get(id) as an index into mapped, 0 for undefined; every mapped
\* entry (hub or child) is set, a later entry with the same id wins
mappedById(mapped, id) ==
    LET hits == {i \in DOMAIN mapped : mapped[i].id = id}
    IN  IF hits = {} THEN 0 ELSE SetMax(hits)

\* the bug of pushing a connection although an endpoint was not found
mapConnectionKeepDangling(mapped, conn) ==
    LET fromBase == mappedById(mapped, conn.from)
        toBase == mappedById(mapped, conn.to)
        weight == clamp01(OrElse(conn.weight, 700))
    IN  <<[from |-> fromBase,
           to |-> toBase,
           weight |-> weight,
           curvatureY |-> remap(weight, 0, Scale, 10 * Scale, 30 * Scale),
           color |-> IF fromBase = 0 \/ toBase = 0 THEN <<Scale, Scale, Scale>>
                     ELSE ColorLerp(mapped[fromBase].baseColor,
                                    mapped[toBase].baseColor, 500),
           opacity |-> remap(weight, 0, Scale, 250, 850)]>>

\* one iteration of data.connections.forEach: <<>> when the connection is
\* dropped, else the pushed MappedConnection; from/to are references into
\* mapped, kept as indices
mapConnection(mapped, conn) ==
    LET fromBase == mappedById(mapped, conn.from)
        toBase == mappedById(mapped, conn.to)
        weight == clamp01(OrElse(conn.weight, 700))
    IN  IF fromBase = 0 \/ toBase = 0 THEN <<>>
        ELSE <<[from |-> fromBase,
                to |-> toBase,
                weight |-> weight,
                curvatureY |-> remap(weight, 0, Scale, 10 * Scale, 30 * Scale),
                color |-> ColorLerp(mapped[fromBase].baseColor,
                                    mapped[toBase].baseColor, 500),
                opacity |-> remap(weight, 0, Scale, 250, 850)]>>

RECURSIVE mapConnections(_, _, _)
mapConnections(mapped, conns, i) ==
    IF i > Len(conns) THEN <<>>
    ELSE mapConnection(mapped, conns[i]) \o mapConnections(mapped, conns, i + 1)

\* global.chromaShift
chromaShift(xNorm) ==
    <<remap(Scale - xNorm, 0, Scale, 160, 450),
      remap(xNorm, 0, Scale, 70, 220),
      remap(xNorm, 0, Scale, 180, 550)>>

\* the returned FeatureBundle; chromaShift closes over nothing and is the
\* operator above
mapJourneyToFeatures(d, clock) ==
    LET mapped == mappedFrom(d.locations, 1, clock)
    IN  [mapped |-> mapped,
         mappedConnections |-> mapConnections(mapped, d.connections, 1),
         exaggeration |-> 1350]

(***************************************************************************)
(* Noise primitive (class Simplexish).  The 32-bit integer mixing of hash  *)
(* is kept in structure but done on HashBits-bit words, the multipliers    *)
(* reduced modulo 2^HashBits and the shifts 13 and 16 scaled to the word.  *)
(***************************************************************************)
HashWord == 32768

RECURSIVE Xor(_, _)
Xor(a, b) ==
    IF a = 0 THEN b
    ELSE IF b = 0 THEN a
    ELSE 2 * Xor(a \div 2, b \div 2) + (((a % 2) + (b % 2)) % 2)

hash(seed, x, y) ==
    LET h0 == Xor((x * (374761393 % HashWord) + y * (668265263 % HashWord)) % HashWord,
                  seed % HashWord)
        h1 == (Xor(h0, h0 \div 64) * (1274126177 % HashWord)) % HashWord
    IN  Xor(h1, h1 \div 128)

\* Math.floor of a fixed-point number, as an integer
Floor(a) == a \div Scale

\* rand is only called on integers, Math.floor is the identity there
rand(seed, xi, yi) == ((hash(seed, xi, yi) % 10000) * Scale) \div 10000

noise(seed, x, y, f) ==
    LET xi == Floor(FMul(x, f))
        yi == Floor(FMul(y, f))
        xf == FMul(x, f) - xi * Scale
        yf == FMul(y, f) - yi * Scale
        r00 == rand(seed, xi, yi)
        r10 == rand(seed, xi + 1, yi)
        r01 == rand(seed, xi, yi + 1)
        r11 == rand(seed, xi + 1, yi + 1)
        ux == FMul(FMul(xf, xf), 3 * Scale - 2 * xf)
        uy == FMul(FMul(yf, yf), 3 * Scale - 2 * yf)
        x1 == FMul(r00, Scale - ux) + FMul(r10, ux)
        x2 == FMul(r01, Scale - ux) + FMul(r11, ux)
    IN  FMul(x1, Scale - uy) + FMul(x2, uy)

\* the for loop of fractal from iteration i on, returning <<sum, norm>>
RECURSIVE fractalLoop(_, _, _, _, _, _, _, _, _, _, _)
fractalLoop(seed, x, y, i, octaves, lacunarity, gain, amp, freq, sum, norm) ==
    IF i >= octaves THEN <<sum, norm>>
    ELSE fractalLoop(seed, x, y, i + 1, octaves, lacunarity, gain,
                     FMul(amp, gain), FMul(freq, lacunarity),
                     sum + FMul(noise(seed, x, y, freq), amp), norm + amp)

\* 1e-6 is below the fixed-point resolution, the smallest positive number
\* stands for it
fractal(seed, x, y, octaves, lacunarity, gain, baseFreq) ==
    LET r == fractalLoop(seed, x, y, 0, octaves, lacunarity, gain, Scale, baseFreq, 0, 0)
    IN  FDiv(r[1], Max(r[2], 1))

(***************************************************************************)
(* More library functions                                                  *)
(***************************************************************************)
\* largest r with r * r <= n, by bisection on lo..hi
RECURSIVE ISqrtIn(_, _, _)
ISqrtIn(n, lo, hi) ==
    IF lo >= hi THEN lo
    ELSE With((lo + hi + 1) \div 2, LAMBDA mid :
             IF mid * mid <= n THEN ISqrtIn(n, mid, hi) ELSE ISqrtIn(n, lo, mid - 1))

ISqrt(n) == ISqrtIn(n, 0, 46340)

\* Math.sqrt on a fixed-point number
Sqrt(a) == ISqrt(a * Scale)

\* Math.hypot(dx, dz); the squares are taken at 1/50 to stay in the word
Hypot(dx, dz) == ISqrt((dx \div 20) * (dx \div 20) + (dz \div 20) * (dz \div 20)) * 20

\* linear interpolation in a table <<x, y>> sorted by x, flat beyond its ends
RECURSIVE Interp(_, _, _)
Interp(tab, k, x) ==
    IF x <= tab[1][1] THEN tab[1][2]
    ELSE IF k >= Len(tab) THEN tab[Len(tab)][2]
    ELSE IF x <= tab[k + 1][1]
         THEN tab[k][2] + ((x - tab[k][1])
                  * (((tab[k + 1][2] - tab[k][2]) * Scale) \div (tab[k + 1][1] - tab[k][1])))
                  \div Scale
         ELSE Interp(tab, k + 1, x)

\* Math.pow(t, 2.2) for 0 <= t <= 1, interpolated between exact values
PowFall(t) ==
    Interp(<<<<0, 0>>, <<100, 6>>, <<200, 29>>, <<300, 71>>, <<400, 133>>,
             <<500, 218>>, <<600, 325>>, <<700, 456>>, <<800, 612>>,
             <<900, 793>>, <<1000, 1000>>>>, 1, t)

\* Math.pow(h, 1.12) for h > 0, interpolated between exact values
PowCliff(h) ==
    Interp(<<<<0, 0>>, <<250, 212>>, <<500, 460>>, <<1000, 1000>>, <<2000, 2173>>,
             <<4000, 4724>>, <<8000, 10267>>, <<16000, 22316>>, <<32000, 48503>>,
             <<64000, 105420>>, <<128000, 229126>>, <<256000, 497999>>,
             <<512000, 1082386>>>>, 1, h)

\* THREE.MathUtils.lerp(x, y, t)
Lerp(x, y, t) == x + FMul(y - x, t)

(***************************************************************************)
(* TerrainEngine                                                           *)
(***************************************************************************)
TerrainWidth == 320

TerrainHeight == 240

\* the grid has Segments x Segments quads (220 in the source)
Segments == 2

TerrainSeed == 42

VertexCount == (Segments + 1) * (Segments + 1)

\* PlaneGeometry(width, height, segments, segments).rotateX(-PI / 2):
\* vertex i (0-based) at column i % (segments + 1), row i \div (segments + 1)
VertexX(i) ==
    ((i % (Segments + 1)) * TerrainWidth * Scale) \div Segments
        - (TerrainWidth * Scale) \div 2

VertexZ(i) ==
    ((i \div (Segments + 1)) * TerrainHeight * Scale) \div Segments
        - (TerrainHeight * Scale) \div 2

\* the base relief of heightAt, before any location acts
baseRelief(x, z, f) ==
    LET base == fractal(TerrainSeed, FMul(x, 18), FMul(z, 18), 5, 2 * Scale, 480, Scale)
    IN  FMul((base - 500) * 14, f.exaggeration)

\* the three updates of h inside if (dist < R), for the falloff fall
influenced(h, m, localShape, fall, ex) ==
    With(h + FMul(FMul(FMul(m.amplitude, localShape) * 10, fall), ex)
           + FMul(FMul(FMul(m.elevationBias, 600), fall), ex),
         LAMBDA h2 : Lerp(h2, FMul(h2, 700), FMul(m.erosion, 400)))

\* the bug of eroding the running height also outside the radius
influenceErodingOutside(h, m, x, z, f) ==
    LET base == fractal(TerrainSeed, FMul(x, 18), FMul(z, 18), 5, 2 * Scale, 480, Scale)
        R == IF m.isVisit THEN 28 * Scale ELSE 46 * Scale
        ridge == Abs(fractal(TerrainSeed, FMul(x, 65), FMul(z, 65), 3, 2 * Scale, 520, Scale)
                     - 500) * 2 - 500
        hill == base - 500
        localShape == FMul(m.ridgeFactor, ridge) + FMul(Scale - m.ridgeFactor, hill)
    IN  With(Hypot(x - m.pos[1], z - m.pos[3]),
             LAMBDA dist :
                 IF dist < R
                 THEN influenced(h, m, localShape, PowFall(Scale - FDiv(dist, R)),
                                 f.exaggeration)
                 ELSE Lerp(h, FMul(h, 700), FMul(m.erosion, 400)))

\* one iteration of for (const m of f.mapped) on the running height h
influence(h, m, x, z, f) ==
    LET base == fractal(TerrainSeed, FMul(x, 18), FMul(z, 18), 5, 2 * Scale, 480, Scale)
        R == IF m.isVisit THEN 28 * Scale ELSE 46 * Scale
        ridge == Abs(fractal(TerrainSeed, FMul(x, 65), FMul(z, 65), 3, 2 * Scale, 520, Scale)
                     - 500) * 2 - 500
        hill == base - 500
        localShape == FMul(m.ridgeFactor, ridge) + FMul(Scale - m.ridgeFactor, hill)
    IN  With(Hypot(x - m.pos[1], z - m.pos[3]),
             LAMBDA dist :
                 IF dist < R
                 THEN influenced(h, m, localShape, PowFall(Scale - FDiv(dist, R)),
                                 f.exaggeration)
                 ELSE h)

\* the bug of iterating the locations from the last to the first
RECURSIVE accumulateBackwards(_, _, _, _, _, _)
accumulateBackwards(h, mapped, k, x, z, f) ==
    IF k > Len(mapped) THEN h
    ELSE With(influence(h, mapped[Len(mapped) + 1 - k], x, z, f),
              LAMBDA h2 : accumulateBackwards(h2, mapped, k + 1, x, z, f))

\* for (const m of f.mapped) from the k-th entry on
RECURSIVE accumulate(_, _, _, _, _, _)
accumulate(h, mapped, k, x, z, f) ==
    IF k > Len(mapped) THEN h
    ELSE With(influence(h, mapped[k], x, z, f),
              LAMBDA h2 : accumulate(h2, mapped, k + 1, x, z, f))

\* the bug of leaving out the cliff curve
heightAtNoCliff(x, z, f) ==
    With(baseRelief(x, z, f), LAMBDA h0 : accumulate(h0, f.mapped, 1, x, z, f))

heightAt(x, z, f) ==
    With(baseRelief(x, z, f),
         LAMBDA h0 : With(accumulate(h0, f.mapped, 1, x, z, f),
                          LAMBDA h : IF h > 0 THEN PowCliff(h) ELSE h))

\* c.offsetHSL(0, 0, l) is kept as the pair of the base colour and l
colorAt(x, z, h, f) ==
    LET xNorm == FDiv(x + (TerrainWidth * Scale) \div 2, TerrainWidth * Scale)
        t == clamp(FDiv(h + 30 * Scale, 60 * Scale), 0, Scale)
    IN  [base |-> chromaShift(xNorm), lightness |-> FMul(t, 220)]

(***************************************************************************)
(* PointCloudSphere                                                        *)
(***************************************************************************)
BaseRadius == 80

\* the base layer has PointCount points (45000 in the source)
PointCount == 3

\* the cluster layer of a location has (800 + ...) points in the source; the
\* model keeps one point per ClusterShrink of them
ClusterShrink == 800

\* Math.acos: Abramowitz-Stegun 4.4.45,
\* sqrt(1 - x) (1.5707288 - 0.2121144 x + 0.0742610 x^2 - 0.0187293 x^3)
Acos(x) ==
    LET a == Abs(x)
        poly == 1571 - FMul(212, a) + FMul(74, FMul(a, a)) - FMul(19, FMul(a, FMul(a, a)))
        r == FMul(Sqrt(Scale - a), poly)
    IN  IF x >= 0 THEN r ELSE Pi - r

\* the k-th value Math.random() returns during a call whose stream is r
Random(r, k) == (r + k * 389) % Scale

posToSpherical(pos) ==
    [theta |-> FMul(FDiv(pos[1] + 120 * Scale, 240 * Scale), 2 * Pi),
     phi |-> FMul(200, Pi) + FMul(FMul(FDiv(pos[3] + 120 * Scale, 240 * Scale), Pi), 600)]

\* s - Math.floor(s) for s = Math.sin(...)
noise3(x, y, z) == Sin(FMul(x, 12990) + FMul(y, 78233) + FMul(z, 37719)) % Scale

RECURSIVE fbmLoop(_, _, _, _, _, _, _)
fbmLoop(x, y, z, i, value, amp, freq) ==
    IF i >= 5 THEN value
    ELSE fbmLoop(x, y, z, i + 1,
                 value + FMul(noise3(FMul(x, freq), FMul(y, freq), FMul(z, freq)), amp),
                 FMul(amp, 540), FMul(freq, 2300))

fbm(x, y, z) == fbmLoop(x, y, z, 0, 0, 500, Scale)

\* a MappedLocation has no significance or valence field: the ?? and ||
\* defaults always apply to them
precomputeSphericalFeatures(features) ==
    [k \in DOMAIN features.mapped |->
        LET m == features.mapped[k]
            sp == posToSpherical(m.pos)
            sig == 500
        IN  [mapped |-> m,
             theta |-> sp.theta,
             phi |-> sp.phi,
             weight |-> FMul(m.amplitude, 500) + sig * 16 + Abs(m.ridgeFactor) * 10
                        + m.roughness * 8 + 12 * Scale,
             sign |-> IF m.elevationBias > 0 THEN 1
                      ELSE IF m.elevationBias < 0 THEN -1 ELSE 1]]

\* the body of the for loop of sampleSilhouetteField for feature sf, on the
\* running <<field, signedField, totalW>>
fieldStep(sf, theta, phi, acc) ==
    LET d == Abs(theta - sf.theta)
        dTheta == IF d > Pi THEN 2 * Pi - d ELSE d
        dPhi == Abs(phi - sf.phi)
        influenceRadius == 900
    IN  With(Sqrt(FMul(dTheta, dTheta) + FMul(dPhi, dPhi)),
             LAMBDA angDist :
                 IF angDist < influenceRadius
                 THEN With(Scale - FDiv(angDist, influenceRadius),
                           LAMBDA t :
                               With(FMul(FMul(t, t), t),
                                    LAMBDA falloff :
                                        <<acc[1] + FMul(sf.weight, falloff),
                                          acc[2] + FMul(sf.weight * sf.sign, falloff),
                                          acc[3] + sf.weight>>))
                 ELSE acc)

RECURSIVE fieldLoop(_, _, _, _, _)
fieldLoop(sfs, k, theta, phi, acc) ==
    IF k > Len(sfs) THEN acc
    ELSE With(fieldStep(sfs[k], theta, phi, acc),
              LAMBDA a : fieldLoop(sfs, k + 1, theta, phi, a))

\* THREE.MathUtils.clamp(num / den, lo, hi); num / 0 is NaN or an infinity in
\* the source, recorded as nan
clampedQuotient(num, den, lo, hi) ==
    IF den = 0 THEN [nan |-> TRUE, v |-> 0]
    ELSE [nan |-> FALSE, v |-> clamp(FDiv(num, den), lo, hi)]

\* the part of sampleSilhouetteField after the short-circuit
normalized(acc) ==
    LET f == clampedQuotient(acc[1], FMul(acc[3], 450), 0, 2 * Scale)
        sg == clampedQuotient(acc[2], FMul(acc[3], 450), -2 * Scale, 2 * Scale)
    IN  [field |-> f.v, signed |-> sg.v, nan |-> f.nan \/ sg.nan, totalW |-> acc[3]]

\* the bug of normalising without the totalW <= 0 short-circuit
sampleSilhouetteFieldUnguarded(sfs, theta, phi) ==
    With(fieldLoop(sfs, 1, theta, phi, <<0, 0, 0>>), LAMBDA acc : normalized(acc))

\* the result {field, signed}, with the totalW it was computed from and
\* whether a division by zero produced it
sampleSilhouetteField(sfs, theta, phi) ==
    With(fieldLoop(sfs, 1, theta, phi, <<0, 0, 0>>),
         LAMBDA acc :
             IF acc[3] <= 0
             THEN [field |-> 0, signed |-> 0, nan |-> FALSE, totalW |-> acc[3]]
             ELSE normalized(acc))

\* what the base loop pushes for a point at (theta, y) of radius radius
basePushed(radius, theta, y, s, size) ==
    LET rr == Sqrt(Scale - FMul(y, y))
        angleNorm == FDiv(theta, 2 * Pi) % Scale
        heightNorm == clamp(FDiv(radius - BaseRadius * Scale, 35 * Scale), -1 * Scale, Scale)
    IN  [pos |-> <<FMul(FMul(radius, rr), Cos(theta)), FMul(radius, y),
                   FMul(FMul(radius, rr), Sin(theta))>>,
         color |-> [base |-> chromaShift(angleNorm), lightness |-> FMul(heightNorm, 300)],
         size |-> size,
         sample |-> s]

\* base point i (0-based) of the Fibonacci sphere; k0 is the number of
\* Math.random calls made before it, the next one gives its size
basePoint(sfs, i, k0, r) ==
    LET y == Scale - FDiv((2 * i + 1) * Scale, PointCount * Scale)
        theta == FMul(Pi, 3 * Scale - Sqrt(5 * Scale)) * i
    IN  With(Acos(y),
             LAMBDA phi :
                 With(sampleSilhouetteField(sfs, theta, phi),
                      LAMBDA s :
                          With(BaseRadius * Scale + s.field * 26 + s.signed * 12
                                 + (fbm(FMul(theta, 180), FMul(phi, 240), 4700) - 500) * 12
                                 + (fbm(FMul(theta, 1700), FMul(phi, 1300), 19100) - 500) * 4,
                               LAMBDA radius :
                                   basePushed(radius, theta, y, s,
                                              350 + FMul(Random(r, k0), 450)))))

\* const clusterCount = 800 + Math.floor(amp * 30 + sig * 200 + ridge * 150)
clusterCount(sf) ==
    (800 + Floor(sf.mapped.amplitude * 30 + 600 * 200 + Abs(sf.mapped.ridgeFactor) * 150))
        \div ClusterShrink

\* what the cluster loop pushes for a point at (jitterTheta, jitterPhi)
clusterPushed(radius, jitterTheta, jitterPhi, m, s, t, size) ==
    [pos |-> <<FMul(FMul(radius, Sin(jitterPhi)), Cos(jitterTheta)),
               FMul(radius, Cos(jitterPhi)),
               FMul(FMul(radius, Sin(jitterPhi)), Sin(jitterTheta))>>,
     color |-> [base |-> ColorLerp(m.baseColor, <<1100, 950, 1100>>, t),
                lightness |-> 0],
     size |-> size,
     sample |-> s]

\* cluster point i (0-based) of feature idx (0-based); k0 is the number of
\* Math.random calls made before it
clusterPoint(sfs, idx, i, k0, r) ==
    LET sf == sfs[idx + 1]
        sig == 600
        jitterTheta == sf.theta + FMul(Random(r, k0) - 500, 400)
        jitterPhi == sf.phi + FMul(Random(r, k0 + 1) - 500, 350)
    IN  With(sampleSilhouetteField(sfs, jitterTheta, jitterPhi),
             LAMBDA s :
                 With(BaseRadius * Scale + 6 * Scale + s.field * 20 + s.signed * 9
                        + (fbm(FMul(jitterTheta, 2400), FMul(jitterPhi, 2700),
                               idx * 3170 + i * 13) - 500) * 8
                        + (sig - 500) * 12,
                      LAMBDA radius :
                          clusterPushed(radius, jitterTheta, jitterPhi, sf.mapped, s,
                                        350 + FMul(sig, 450)
                                            + FMul(Random(r, k0 + 2), 200),
                                        500 + FMul(Random(r, k0 + 3), 1600)
                                            + FMul(sig, 1600)
                                            + FMul(sf.mapped.amplitude, 20))))

\* the points of the cluster layer from feature idx, point i on
RECURSIVE clusterFrom(_, _, _, _, _)
clusterFrom(sfs, idx, i, k0, r) ==
    IF idx >= Len(sfs) THEN <<>>
    ELSE IF i >= clusterCount(sfs[idx + 1]) THEN clusterFrom(sfs, idx + 1, 0, k0, r)
    ELSE <<clusterPoint(sfs, idx, i, k0, r)>> \o clusterFrom(sfs, idx, i + 1, k0 + 4, r)

\* the points generate pushes: the base layer, then the cluster layer
generatedPoints(features, r) ==
    With(precomputeSphericalFeatures(features),
         LAMBDA sfs : [i \in 1..PointCount |-> basePoint(sfs, i - 1, i - 1, r)]
                      \o clusterFrom(sfs, 0, 0, PointCount, r))

\* the body of the for loop of update for one point
jitterPoint(b, time) ==
    LET t == FMul(time, 400)
        jitter == 500
        n1 == noise3(FMul(b[1], 20) + t, FMul(b[2], 15), FMul(b[3], 10))
        n2 == noise3(FMul(b[1], 10), FMul(b[2], 20) + FMul(t, 1200), FMul(b[3], 15))
    IN  <<b[1] + FMul(n1 - 500, jitter),
          b[2] + FMul(FMul(n2 - 500, jitter), 800),
          b[3] + FMul(FMul(n1 + n2 - Scale, jitter), 700)>>

(***************************************************************************)
(* Inputs                                                                  *)
(***************************************************************************)
MaxLocs == 2

MaxConns == 2

MaxCalls == 2

MaxTicks == 1

SeqsUpTo(S, n) == UNION {[1..k -> S] : k \in 0..n}

Month(year, month) == year * 12 + (month - 1)

Doc(type, sentiment, language) ==
    [type |-> type, sentiment |-> sentiment, language |-> language]

Loc(id, start, end, year, signals, memories) ==
    [id |-> id, periodStart |-> start, periodEnd |-> end, year |-> year,
     intensity |-> signals[1], valence |-> signals[2],
     languageBalance |-> signals[3], significance |-> signals[4],
     duration |-> signals[5], isVisit |-> signals[6], color |-> signals[7],
     memories |-> memories]

\* locations that differ in structure: with and without memories, with a
\* year, a full period, a period that has an end but no start, and neither
StructLocs ==
    {Loc("a", 0, 0, 2010,
         <<750, 800, -700, 950, <<18 * Scale>>, TRUE, <<1000, 702, 416>>>>,
         <<Doc("photo", <<800>>, "zh")>>),
     Loc("b", Month(2019, 1), Month(2019, 7), 0,
         <<550, 500, 700, 500, <<>>, FALSE, <<255, 412, 882>>>>,
         <<>>),
     Loc("a", 0, Month(2012, 1), 0,
         <<850, -300, 200, 980, <<100>>, FALSE, <<604, 804, 196>>>>,
         <<Doc("receipt", <<>>, "en"), Doc("letter", <<-950>>, "mixed")>>),
     Loc("c", 0, 0, 0,
         <<1500, -2000, 3000, -500, <<30 * Scale>>, TRUE, <<1000, 1000, 1000>>>>,
         <<>>)}

ConnIds == {"a", "a::mem-0", "zz"}

ConnSet ==
    {[from |-> f, to |-> t, weight |-> IF f = "a" THEN <<>> ELSE <<1500>>] :
        f \in ConnIds, t \in ConnIds}

StructJourneys ==
    [locations : SeqsUpTo(StructLocs, MaxLocs),
     connections : SeqsUpTo(ConnSet, MaxConns)]

\* one location whose signals sweep in-range and out-of-range values
SignalLocs ==
    {Loc("s", 0, 0, 2020,
         <<i, v, 0, s, d, FALSE, <<1000, 1000, 1000>>>>, m) :
        i \in {-500, 200, 1500},
        v \in {-2000, 500, 2000},
        s \in {-500, 500, 2000},
        d \in {<<>>, <<-3 * Scale>>, <<30 * Scale>>},
        m \in {<<>>} \cup
              {<<Doc(ty, <<1000>>, "none")>> :
                  ty \in {"receipt", "photo", "letter", "document"}}}

SignalJourneys ==
    {[locations |-> <<l>>, connections |-> <<>>] : l \in SignalLocs}

\* one location whose languageBalance sweeps the ends, the middle and beyond
LanguageLocs ==
    {Loc("l", 0, 0, 2015,
         <<500, 500, lb, 500, <<>>, FALSE, <<1000, 1000, 1000>>>>, <<>>) :
        lb \in {-2500, -1 * Scale, 0, Scale, 1800}}

LanguageJourneys ==
    {[locations |-> <<l>>, connections |-> <<>>] : l \in LanguageLocs}

Journeys == StructJourneys \cup SignalJourneys \cup LanguageJourneys

Now0 == Month(2024, 11)

TickSteps == {24}

(***************************************************************************)
(* The callers of the mapping                                              *)
(***************************************************************************)
RemapIdle == rmRange = [inMin |-> 0, inMax |-> Scale, outMin |-> 0, outMax |-> Scale]
             /\ rmCalls = <<>>

\* new Simplexish(seed): this.seed = seed >>> 0; given is the argument
Simplexish(seed) == [given |-> seed, seed |-> seed]

\* the one instance the TerrainEngine constructs, not called yet
NoiseIdle ==
    /\ simplex = <<Simplexish(TerrainSeed)>>
    /\ noiseCalls = <<>>

\* a TerrainEngine after its constructor: the plane lies flat, no colour
\* attribute yet;  no point cloud generated yet
SynthIdle ==
    /\ terrain = [y |-> [i \in 1..VertexCount |-> 0], colors |-> <<>>,
                  generated |-> FALSE, features |-> <<>>, handed |-> <<>>]
    /\ cloud = [made |-> FALSE, positions |-> <<>>, basePositions |-> <<>>,
                colors |-> <<>>, sizes |-> <<>>, samples |-> <<>>,
                synthesized |-> <<>>, features |-> <<>>, stream |-> 0, updates |-> 0,
                time |-> 0]

\* new SoundEngine(): no AudioContext, no nodes, not started.  nodes are
\* the source nodes the AudioContext has created so far, each with what
\* was invoked on it; calls are the calls made on the engine
SoundEngine ==
    [audioCtx |-> FALSE, padOscs |-> <<>>, noiseSource |-> <<>>,
     started |-> FALSE, nodes |-> <<>>, calls |-> <<>>]

\* the scene before it is mounted: a fresh sound engine, no card system,
\* nothing focused, no focus request and no camera transition
SceneIdle ==
    /\ sound = SoundEngine
    /\ cards = <<>>
    /\ focus = [focusMode |-> "none", focusedLocationId |-> <<>>,
                focusedMemoryIndex |-> <<>>]
    /\ camera = <<>>

Init ==
    /\ data \in Journeys
    /\ now = Now0
    /\ bundles = <<>>
    /\ SynthIdle
    /\ RemapIdle
    /\ NoiseIdle
    /\ SceneIdle

\* time passes between calls
Tick ==
    /\ \E d \in TickSteps :
           /\ now + d <= Now0 + MaxTicks * 24
           /\ now' = now + d
    /\ UNCHANGED <<data, bundles, synthVars, remapVars, noiseVars, sceneVars>>

\* const features = mapJourneyToFeatures(journeyData)
MapJourney ==
    /\ Len(bundles) < MaxCalls
    /\ \E b \in {mapJourneyToFeatures(data, now)} : bundles' = Append(bundles, b)
    /\ UNCHANGED <<data, now, synthVars, remapVars, noiseVars, sceneVars>>

Next == Tick \/ MapJourney

Spec == Init /\ [][Next]_vars

(***************************************************************************)
(* The synthesis engines, fed with the bundles the mapping returned        *)
(***************************************************************************)
MaxUpdates == 2

MaxGenerates == 2

RandomStreams == {0, 617}

UpdateTimes == {1500, 4000}

\* degenerate and ordinary journeys for the synthesis
SynthJourneys ==
    {[locations |-> <<>>, connections |-> <<>>],
     [locations |-> <<>>,
      connections |-> <<[from |-> "a", to |-> "zz", weight |-> <<>>]>>],
     [locations |-> <<CHOOSE l \in StructLocs : l.id = "b",
                      CHOOSE l \in StructLocs : l.id = "a" /\ l.year = 2010>>,
      connections |-> <<[from |-> "b", to |-> "a", weight |-> <<1500>>]>>],
     [locations |-> <<CHOOSE l \in StructLocs : l.id = "a" /\ l.periodEnd # 0>>,
      connections |-> <<>>]}

InitSynth ==
    /\ data \in SynthJourneys
    /\ now = Now0
    /\ bundles = <<>>
    /\ SynthIdle
    /\ RemapIdle
    /\ NoiseIdle
    /\ SceneIdle

\* the height and the colour generate computes for grid vertex i (0-based)
vertexGenerated(i, features) ==
    With(heightAt(VertexX(i), VertexZ(i), features),
         LAMBDA h : [y |-> h, color |-> colorAt(VertexX(i), VertexZ(i), h, features)])

\* the bug of patching: the new height is added to the one the vertex has
terrainGeneratedPatching(t, features) ==
    With([i \in 1..VertexCount |-> vertexGenerated(i - 1, features)],
         LAMBDA vs : [y |-> [i \in 1..VertexCount |-> t.y[i] + vs[i].y],
                      colors |-> [i \in 1..VertexCount |-> vs[i].color],
                      generated |-> TRUE,
                      features |-> <<features>>,
                      handed |-> Append(t.handed,
                                        [y |-> [i \in 1..VertexCount |-> t.y[i] + vs[i].y],
                                         colors |-> [i \in 1..VertexCount |->
                                                        vs[i].color]])])

\* what TerrainEngine.generate(features) leaves in this.geometry, t being the
\* engine before the call; handed records the heights and colours each
\* returned mesh had when it was returned
terrainGenerated(t, features) ==
    With([i \in 1..VertexCount |-> vertexGenerated(i - 1, features)],
         LAMBDA vs : [y |-> [i \in 1..VertexCount |-> vs[i].y],
                      colors |-> [i \in 1..VertexCount |-> vs[i].color],
                      generated |-> TRUE,
                      features |-> <<features>>,
                      handed |-> Append(t.handed,
                                        [y |-> [i \in 1..VertexCount |-> vs[i].y],
                                         colors |-> [i \in 1..VertexCount |->
                                                        vs[i].color]])])

\* new THREE.Mesh(this.geometry, mat): every mesh generate returned holds the
\* engine's one geometry, so what it shows are the engine's current buffers
meshGeometry(t, k) == [y |-> t.y, colors |-> t.colors]

\* engine.generate(features) with a bundle the mapping returned
TerrainGenerate ==
    /\ Len(terrain.handed) < MaxGenerates
    /\ \E b \in DOMAIN bundles :
           \E g \in {terrainGenerated(terrain, bundles[b])} : terrain' = g
    /\ UNCHANGED <<mapVars, cloud, remapVars, noiseVars, sceneVars>>

\* what PointCloudSphere.generate(features) returns when Math.random yields
\* the stream r; basePositions is a copy of the position array
cloudGenerated(features, r) ==
    With(generatedPoints(features, r),
         LAMBDA pts :
             [made |-> TRUE,
              positions |-> [i \in DOMAIN pts |-> pts[i].pos],
              basePositions |-> [i \in DOMAIN pts |-> pts[i].pos],
              colors |-> [i \in DOMAIN pts |-> pts[i].color],
              sizes |-> [i \in DOMAIN pts |-> pts[i].size],
              samples |-> [i \in DOMAIN pts |-> pts[i].sample],
              synthesized |-> [i \in DOMAIN pts |-> pts[i].pos],
              features |-> <<features>>,
              stream |-> r,
              updates |-> 0,
              time |-> 0])

\* const pointCloud = sphereEngine.generate(features)
CloudGenerate ==
    /\ \E b \in DOMAIN bundles : \E r \in RandomStreams :
          \E c \in {cloudGenerated(bundles[b], r)} : cloud' = c
    /\ UNCHANGED <<mapVars, terrain, remapVars, noiseVars, sceneVars>>

\* the bug of jittering the jittered result: the loop reads the position
\* attribute instead of basePositions
cloudUpdatedInPlace(c, time) ==
    [c EXCEPT !.positions = [i \in DOMAIN c.positions |-> jitterPoint(c.positions[i], time)],
              !.updates = c.updates + 1,
              !.time = time]

\* the point cloud after sphere.update(pointCloud, time)
cloudUpdated(c, time) ==
    [c EXCEPT !.positions = [i \in DOMAIN c.positions |->
                                jitterPoint(c.basePositions[i], time)],
              !.updates = c.updates + 1,
              !.time = time]

\* sphere.update(pointCloud, time) from the render loop
CloudUpdate ==
    /\ cloud.made
    /\ cloud.updates < MaxUpdates
    /\ \E time \in UpdateTimes : cloud' = cloudUpdated(cloud, time)
    /\ UNCHANGED <<mapVars, terrain, remapVars, noiseVars, sceneVars>>

NextSynth == Tick \/ MapJourney \/ TerrainGenerate \/ CloudGenerate \/ CloudUpdate

SpecSynth == InitSynth /\ [][NextSynth]_vars

(***************************************************************************)
(* One engine fed with the bundles of several journeys                     *)
(***************************************************************************)
\* the journeys of the synthesis, and two of one location each
RegenJourneys ==
    SynthJourneys \cup
        {[locations |-> <<l>>, connections |-> <<>>] :
            l \in {m \in StructLocs : m.id = "c" \/ m.year = 2010}}

InitRegen ==
    /\ data = [locations |-> <<>>, connections |-> <<>>]
    /\ now = Now0
    /\ bundles = <<>>
    /\ SynthIdle
    /\ RemapIdle
    /\ NoiseIdle
    /\ SceneIdle

\* mapJourneyToFeatures(d) for a journey d
MapJourneyOf(d) ==
    /\ Len(bundles) < MaxCalls
    /\ data' = d
    /\ \E b \in {mapJourneyToFeatures(d, now)} : bundles' = Append(bundles, b)
    /\ UNCHANGED <<now, synthVars, remapVars, noiseVars, sceneVars>>

NextRegen == (\E d \in RegenJourneys : MapJourneyOf(d)) \/ TerrainGenerate

SpecRegen == InitRegen /\ [][NextRegen]_vars

LocationIds == {data.locations[i].id : i \in DOMAIN data.locations}

ConnResolves(c) == c.from \in LocationIds /\ c.to \in LocationIds

DanglingConns == {i \in DOMAIN data.connections : ~ConnResolves(data.connections[i])}

\* C2: mappedConnections holds exactly one entry, in input order, for each
\* input Connection whose from and to both name a Location, and none for a
\* Connection with a dangling reference: its length is the number of input
\* connections minus the number of dangling ones.
ConnectionsDropDangling ==
    \A i \in DOMAIN bundles :
        LET b == bundles[i]
            kept == SelectSeq(data.connections, ConnResolves)
        IN  /\ Len(b.mappedConnections) = Len(kept)
            /\ Len(b.mappedConnections)
                   = Len(data.connections) - Cardinality(DanglingConns)
            /\ \A k \in DOMAIN b.mappedConnections :
                   k \in DOMAIN kept =>
                       /\ b.mapped[b.mappedConnections[k].from].id = kept[k].from
                       /\ b.mapped[b.mappedConnections[k].to].id = kept[k].to

IsHub(m) == m.parentLocationId = <<>>

\* the hub a child belongs to: the nearest hub before it in the list
HubBefore(mapped, i) ==
    mapped[SetMax({j \in 1..i : IsHub(mapped[j])})]

InRange(v, lo, hi) == lo <= v /\ v <= hi

\* C8: every coefficient stays inside its range for all input signal values:
\* hubs have amplitude in [6, 22], roughness in [0.18, 1.1], erosion in
\* [0.12, 0.9], ridgeFactor in [0.05, 0.95], elevationBias in [-10, 42];
\* children have roughness in [0.05, 1.5], ridgeFactor in [0.01, 1.5] and
\* their hub's erosion.
CoefficientsInRange ==
    \A i \in DOMAIN bundles :
        \A k \in DOMAIN bundles[i].mapped :
            LET m == bundles[i].mapped[k]
            IN  IF IsHub(m)
                THEN /\ InRange(m.amplitude, 6 * Scale, 22 * Scale)
                     /\ InRange(m.roughness, 180, 1100)
                     /\ InRange(m.erosion, 120, 900)
                     /\ InRange(m.ridgeFactor, 50, 950)
                     /\ InRange(m.elevationBias, -10 * Scale, 42 * Scale)
                ELSE /\ InRange(m.roughness, 50, 1500)
                     /\ InRange(m.ridgeFactor, 10, 1500)
                     /\ m.erosion = HubBefore(bundles[i].mapped, k).erosion

\* a location whose intensity, valence, significance and duration are all out
\* of range, with one memory, has been mapped: the hub saturates
CoefficientsSaturatedWitness ==
    /\ Len(bundles) > 0
    /\ Len(data.locations) = 1
    /\ data.locations[1].intensity > Scale
    /\ data.locations[1].valence < -1 * Scale
    /\ data.locations[1].significance > Scale
    /\ data.locations[1].duration = <<30 * Scale>>
    /\ Len(data.locations[1].memories) = 1
    /\ Len(bundles[1].mapped) = 2
    /\ bundles[1].mapped[1].amplitude = 22 * Scale
    /\ bundles[1].mapped[1].roughness = 1100
    /\ bundles[1].mapped[1].elevationBias = 22 * Scale
    /\ bundles[1].mapped[2].erosion = bundles[1].mapped[1].erosion

\* what the claim expects of one location: its hub, then child i for event i
ExpectedOfLoc(loc) ==
    <<[id |-> loc.id, parent |-> <<>>, index |-> <<>>, count |-> <<>>]>> \o
    [k \in 1..Len(loc.memories) |->
        [id |-> loc.id \o "::mem-" \o ToString(k - 1), parent |-> <<loc.id>>,
         index |-> <<k - 1>>, count |-> <<Len(loc.memories)>>]]

RECURSIVE ExpectedMapped(_)
ExpectedMapped(locs) ==
    IF locs = <<>> THEN <<>>
    ELSE ExpectedOfLoc(Head(locs)) \o ExpectedMapped(Tail(locs))

RECURSIVE TotalEvents(_)
TotalEvents(locs) ==
    IF locs = <<>> THEN 0 ELSE Len(Head(locs).memories) + TotalEvents(Tail(locs))

\* C9: the mapped list is, for the locations in input order, each location's
\* hub immediately followed by its children for events 0..n-1 in event order;
\* its length is the number of locations plus the number of memory events, so
\* one location without events or connections gives 1 MappedLocation and 0
\* MappedConnections.
MappedOrder ==
    \A i \in DOMAIN bundles :
        LET b == bundles[i]
        IN  /\ Len(b.mapped) = Len(data.locations) + TotalEvents(data.locations)
            /\ [k \in DOMAIN b.mapped |->
                   [id |-> b.mapped[k].id, parent |-> b.mapped[k].parentLocationId,
                    index |-> b.mapped[k].memoryIndex,
                    count |-> b.mapped[k].memoryCount]]
               = ExpectedMapped(data.locations)
            /\ (Len(data.locations) = 1 /\ data.locations[1].memories = <<>>
                /\ data.connections = <<>>)
                   => Len(b.mapped) = 1 /\ Len(b.mappedConnections) = 0

\* two locations, the first with two events and the second with one, mapped
MappedOrderWitness ==
    /\ Len(bundles) > 0
    /\ Len(data.locations) = 2
    /\ Len(data.locations[1].memories) = 2
    /\ Len(data.locations[2].memories) = 1
    /\ Len(bundles[1].mapped) = 5
    /\ IsHub(bundles[1].mapped[4])
    /\ bundles[1].mapped[3].memoryIndex = <<1>>

\* C10: both endpoints of every MappedConnection are hub MappedLocations
\* (entries without parentLocationId), never a child, whatever identifiers
\* the input Connections name.
ConnectionEndpointsAreHubs ==
    \A i \in DOMAIN bundles :
        \A k \in DOMAIN bundles[i].mappedConnections :
            /\ IsHub(bundles[i].mapped[bundles[i].mappedConnections[k].from])
            /\ IsHub(bundles[i].mapped[bundles[i].mappedConnections[k].to])

(***************************************************************************)
(* Properties of the synthesis                                             *)
(***************************************************************************)
\* C3: the per-frame jitter pass never writes the stored base positions:
\* after any sequence of update calls basePositions is what generate
\* synthesized, and the position buffer after update(t) is a function of the
\* base positions and t only, whatever updates ran before.
JitterNeverDrifts ==
    cloud.made =>
        /\ cloud.basePositions = cloud.synthesized
        /\ cloud.updates = 0 => cloud.positions = cloud.synthesized
        /\ cloud.updates > 0 =>
               cloud.positions = [i \in DOMAIN cloud.synthesized |->
                                     jitterPoint(cloud.synthesized[i], cloud.time)]

\* two updates ran on a generated cloud and the second one moved a point
\* away from where the first had left it
JitterTwiceWitness ==
    /\ cloud.made
    /\ cloud.updates = 2
    /\ cloud.time = 4000
    /\ cloud.positions # cloud.synthesized
    /\ cloud.positions # [i \in DOMAIN cloud.synthesized |->
                             jitterPoint(cloud.synthesized[i], 1500)]

\* the base relief of the claim at grid vertex i (1-based), written out
\* from the claim: (fractal(x s, z s, 5, 2, 0.48, 1) - 0.5) baseScale ex
ReliefOfClaim(i, ex) ==
    FMul((fractal(TerrainSeed, FMul(VertexX(i - 1), 18), FMul(VertexZ(i - 1), 18),
                  5, 2 * Scale, 480, Scale) - 500) * 14, ex)

GeneratedFromEmpty ==
    /\ terrain.generated
    /\ terrain.features[1].mapped = <<>>

\* C4 as stated: with zero locations the height at every grid sample is the
\* base relief alone, with no other contribution or transformation.
EmptyTerrainIsBaseRelief ==
    GeneratedFromEmpty =>
        \A i \in 1..VertexCount :
            terrain.y[i] = ReliefOfClaim(i, terrain.features[1].exaggeration)

\* C4 amended: with zero locations the height at every grid sample is the
\* base relief h0 where h0 <= 0 and the cliff curve h0^1.12 of it where
\* h0 > 0; no location contributes.
EmptyTerrainIsCliffedBaseRelief ==
    GeneratedFromEmpty =>
        \A i \in 1..VertexCount :
            LET h0 == ReliefOfClaim(i, terrain.features[1].exaggeration)
            IN  terrain.y[i] = IF h0 > 0 THEN PowCliff(h0) ELSE h0

\* an empty bundle was synthesized and the grid has a vertex above zero,
\* where the cliff curve changed the base relief, and one below
EmptyTerrainWitness ==
    /\ GeneratedFromEmpty
    /\ \E i \in 1..VertexCount :
           /\ ReliefOfClaim(i, 1350) > 0
           /\ terrain.y[i] # ReliefOfClaim(i, 1350)
    /\ \E i \in 1..VertexCount :
           /\ ReliefOfClaim(i, 1350) < 0
           /\ terrain.y[i] = ReliefOfClaim(i, 1350)

\* C5: sampleSilhouetteField returns field = 0 and signed = 0, without
\* dividing, whenever the total weight within the influence radius is <= 0
\* (zero locations, or a sample outside every radius); otherwise field is in
\* [0, 2] and signed in [-2, 2].
SilhouetteFieldGuarded ==
    \A i \in DOMAIN cloud.samples :
        LET s == cloud.samples[i]
        IN  /\ ~s.nan
            /\ s.totalW <= 0 => s.field = 0 /\ s.signed = 0
            /\ s.totalW > 0 => /\ InRange(s.field, 0, 2 * Scale)
                               /\ InRange(s.signed, -2 * Scale, 2 * Scale)

\* a cloud over at least one location with a sample outside every influence
\* radius and a sample inside one, whose field is positive
SilhouetteFieldWitness ==
    /\ cloud.made
    /\ cloud.features[1].mapped # <<>>
    /\ \E i \in DOMAIN cloud.samples :
           cloud.samples[i].totalW = 0 /\ cloud.samples[i].field = 0
    /\ \E i \in DOMAIN cloud.samples :
           cloud.samples[i].totalW > 0 /\ cloud.samples[i].field > 0

\* C6: nothing is fatal on degenerate input: for a JourneyData with zero
\* locations (with or without connections) the mapping returns a bundle with
\* empty mapped and mappedConnections lists, and both synthesis variants
\* still produce complete buffers, one entry per grid vertex and one per
\* base point.
EmptyJourneyIsNotFatal ==
    data.locations = <<>> =>
        /\ \A i \in DOMAIN bundles :
               bundles[i].mapped = <<>> /\ bundles[i].mappedConnections = <<>>
        /\ terrain.generated =>
               Len(terrain.y) = VertexCount /\ Len(terrain.colors) = VertexCount
        /\ cloud.made =>
               /\ Len(cloud.positions) = PointCount
               /\ Len(cloud.colors) = PointCount
               /\ Len(cloud.sizes) = PointCount
               /\ \A i \in DOMAIN cloud.samples : ~cloud.samples[i].nan

\* a journey without locations but with a connection went through the
\* mapping and both synthesis variants
EmptyJourneyWitness ==
    /\ data.locations = <<>>
    /\ data.connections # <<>>
    /\ bundles # <<>>
    /\ terrain.generated
    /\ cloud.made
    /\ Len(cloud.positions) = PointCount

(***************************************************************************)
(* Properties of the height field                                          *)
(***************************************************************************)
\* the entry m acts on the sample at (x, z): dist < R
Influences(m, x, z) ==
    Hypot(x - m.pos[1], z - m.pos[3]) < (IF m.isVisit THEN 28 * Scale ELSE 46 * Scale)

\* the claim's step for one location on the running height: nothing outside
\* its radius, else add-amplitude, add-bias, then the erosion lerp
FoldStep(h, m, x, z, f) ==
    LET hill == fractal(TerrainSeed, FMul(x, 18), FMul(z, 18), 5, 2 * Scale, 480, Scale)
                - 500
        ridge == Abs(fractal(TerrainSeed, FMul(x, 65), FMul(z, 65), 3, 2 * Scale, 520, Scale)
                     - 500) * 2 - 500
        shape == FMul(m.ridgeFactor, ridge) + FMul(Scale - m.ridgeFactor, hill)
        R == IF m.isVisit THEN 28 * Scale ELSE 46 * Scale
        fall == PowFall(Scale - FDiv(Hypot(x - m.pos[1], z - m.pos[3]), R))
    IN  IF ~Influences(m, x, z) THEN h
        ELSE With(h + FMul(FMul(FMul(m.amplitude, shape) * 10, fall), f.exaggeration),
                  LAMBDA h1 :
                      With(h1 + FMul(FMul(FMul(m.elevationBias, 600), fall), f.exaggeration),
                           LAMBDA h2 : h2 + FMul(FMul(h2, 700) - h2, FMul(m.erosion, 400))))

\* the left fold of FoldStep over the first n entries of the list, from h0
RECURSIVE FoldLeft(_, _, _, _, _, _)
FoldLeft(h0, mapped, n, x, z, f) ==
    IF n = 0 THEN h0
    ELSE With(FoldLeft(h0, mapped, n - 1, x, z, f),
              LAMBDA h : FoldStep(h, mapped[n], x, z, f))

\* the height of the claim at grid vertex i (1-based) for the bundle f
FoldedHeight(i, f) ==
    With(FoldLeft(ReliefOfClaim(i, f.exaggeration), f.mapped, Len(f.mapped),
                  VertexX(i - 1), VertexZ(i - 1), f),
         LAMBDA h : IF h > 0 THEN PowCliff(h) ELSE h)

\* the list with its entries a and b exchanged
Swapped(mapped, a, b) ==
    [k \in DOMAIN mapped |-> IF k = a THEN mapped[b] ELSE IF k = b THEN mapped[a]
                             ELSE mapped[k]]

\* C11: the height of a sample is the left fold over the bundle's locations
\* in list order, each influencing location applying add-amplitude, add-bias,
\* then the erosion lerp to the running h; the fold is not commutative, the
\* output is the one of the bundle's order.
HeightIsOrderedFold ==
    terrain.generated =>
        \A i \in 1..VertexCount : terrain.y[i] = FoldedHeight(i, terrain.features[1])

\* a generated vertex that two entries of different coefficients both
\* influence, where exchanging the two gives another height
FoldOrderMattersWitness ==
    /\ terrain.generated
    /\ \E i \in 1..VertexCount :
           LET f == terrain.features[1]
           IN  \E a, b \in DOMAIN f.mapped :
                   /\ a < b
                   /\ Influences(f.mapped[a], VertexX(i - 1), VertexZ(i - 1))
                   /\ Influences(f.mapped[b], VertexX(i - 1), VertexZ(i - 1))
                   /\ FoldedHeight(i, [f EXCEPT !.mapped = Swapped(f.mapped, a, b)])
                          # terrain.y[i]

(***************************************************************************)
(* remap as a pure function: the range is drawn at Init, every call draws  *)
(* its input v and records <<v, result>>.                                  *)
(***************************************************************************)
MaxRemapCalls == 2

RemapIns == {-1 * Scale, 0, Scale}

RemapOuts == {-10 * Scale, 6 * Scale, 180, 22 * Scale}

RemapVals == {-2 * Scale, -1 * Scale, -500, 0, 250, 500, 750, Scale, 2 * Scale}

RemapRanges ==
    [inMin : RemapIns, inMax : RemapIns, outMin : RemapOuts, outMax : RemapOuts]

InitRemap ==
    /\ rmRange \in RemapRanges
    /\ rmCalls = <<>>
    /\ data = [locations |-> <<>>, connections |-> <<>>]
    /\ now = Now0
    /\ bundles = <<>>
    /\ SynthIdle
    /\ NoiseIdle
    /\ SceneIdle

RemapCall(v) ==
    /\ Len(rmCalls) < MaxRemapCalls
    /\ rmCalls' = Append(rmCalls,
           [v |-> v,
            out |-> remap(v, rmRange.inMin, rmRange.inMax,
                          rmRange.outMin, rmRange.outMax)])
    /\ UNCHANGED <<rmRange, mapVars, synthVars, noiseVars, sceneVars>>

NextRemap == \E v \in RemapVals : RemapCall(v)

SpecRemap == InitRemap /\ [][NextRemap]_vars

\* C7: for inMin < inMax and outMin <= outMax, remap is monotonic
\* non-decreasing in v, equals outMin for v <= inMin and outMax for v >= inMax
\* (out-of-domain inputs saturate, they never extrapolate).
RemapMonotoneSaturating ==
    (rmRange.inMin < rmRange.inMax /\ rmRange.outMin <= rmRange.outMax) =>
        \A i \in DOMAIN rmCalls :
            /\ rmCalls[i].v <= rmRange.inMin => rmCalls[i].out = rmRange.outMin
            /\ rmCalls[i].v >= rmRange.inMax => rmCalls[i].out = rmRange.outMax
            /\ \A j \in DOMAIN rmCalls :
                   rmCalls[i].v <= rmCalls[j].v => rmCalls[i].out <= rmCalls[j].out

\* a call strictly inside the domain followed by one beyond inMax, on a
\* non-degenerate increasing range: the results differ and the second is outMax
RemapSaturatedWitness ==
    /\ rmRange.inMin < rmRange.inMax
    /\ rmRange.outMin < rmRange.outMax
    /\ Len(rmCalls) = 2
    /\ rmCalls[1].v > rmRange.inMin /\ rmCalls[1].v < rmRange.inMax
    /\ rmCalls[2].v > rmRange.inMax
    /\ rmCalls[1].out > rmRange.outMin /\ rmCalls[1].out < rmCalls[2].out
    /\ rmCalls[2].out = rmRange.outMax

(***************************************************************************)
(* Properties of TerrainEngine.generate                                    *)
(***************************************************************************)
\* C12: every generate call recomputes the height and colour of every grid
\* vertex from the bundle of that call alone: the buffers do not depend on
\* the bundles of earlier calls or on the heights they left, and generating
\* twice with one bundle gives what generating once gives.
GenerateIsWholesale ==
    terrain.generated =>
        /\ terrain.y = [i \in 1..VertexCount |->
                           heightAt(VertexX(i - 1), VertexZ(i - 1), terrain.features[1])]
        /\ terrain.colors = [i \in 1..VertexCount |->
                                colorAt(VertexX(i - 1), VertexZ(i - 1), terrain.y[i],
                                        terrain.features[1])]

\* the engine generated twice, the second call with another bundle that
\* gives other heights
RegeneratedWitness ==
    /\ Len(terrain.handed) = 2
    /\ terrain.handed[1].y # terrain.handed[2].y

\* C13: a mesh the engine returned is a read-only view from then on: no
\* later operation of the engine changes its heights or colours.
ReturnedMeshIsStable ==
    \A k \in DOMAIN terrain.handed : meshGeometry(terrain, k) = terrain.handed[k]

(***************************************************************************)
(* Properties of the samples                                               *)
(***************************************************************************)
\* the <<idx, i>> of the cluster points in the order generate pushes them
RECURSIVE ClusterSlots(_, _, _)
ClusterSlots(sfs, idx, i) ==
    IF idx >= Len(sfs) THEN <<>>
    ELSE IF i >= clusterCount(sfs[idx + 1]) THEN ClusterSlots(sfs, idx + 1, 0)
    ELSE <<<<idx, i>>>> \o ClusterSlots(sfs, idx, i + 1)

\* the samples of generate computed from the last output slot to the first,
\* each written to its own slot: a sample is computed after the samples of
\* the slots behind it made their Math.random calls (four per cluster point,
\* one per base point)
ReversedPass(features, r) ==
    With(precomputeSphericalFeatures(features),
         LAMBDA sfs :
             With(ClusterSlots(sfs, 0, 0),
                  LAMBDA cs :
                      [i \in 1..PointCount |->
                          basePoint(sfs, i - 1, 4 * Len(cs) + PointCount - i, r)]
                      \o [j \in 1..Len(cs) |->
                             clusterPoint(sfs, cs[j][1], cs[j][2], 4 * (Len(cs) - j), r)]))

\* the pass of ReversedPass leaves the buffers the cloud c was generated with
SamePointBuffers(c, pts) ==
    /\ c.synthesized = [i \in DOMAIN pts |-> pts[i].pos]
    /\ c.colors = [i \in DOMAIN pts |-> pts[i].color]
    /\ c.sizes = [i \in DOMAIN pts |-> pts[i].size]

\* C14: in both synthesis variants the value written for a sample depends
\* only on the sample's coordinates, the bundle and the noise primitive:
\* computing the samples in another order, each into its own slot, yields the
\* buffers of the sequential pass.
SamplesAreIndependent ==
    /\ terrain.generated =>
           \A i \in 1..VertexCount :
               /\ terrain.y[i] = vertexGenerated(i - 1, terrain.features[1]).y
               /\ terrain.colors[i] = vertexGenerated(i - 1, terrain.features[1]).color
    /\ cloud.made =>
           With(ReversedPass(cloud.features[1], cloud.stream),
                LAMBDA pts : SamePointBuffers(cloud, pts))

\* C16: two PointCloudSphere.generate calls with the same bundle produce
\* the same number of points and identical position and colour buffers.
CloudGenerateIsDeterministic ==
    [][(/\ cloud.made
        /\ cloud'.made
        /\ cloud'.updates = 0
        /\ cloud'.features = cloud.features)
       => /\ Len(cloud'.synthesized) = Len(cloud.synthesized)
          /\ cloud'.synthesized = cloud.synthesized
          /\ cloud'.colors = cloud.colors]_vars

(***************************************************************************)
(* Simplexish as an object: the seeds are drawn at Init, every call draws  *)
(* its instance and its arguments and is recorded with its result.         *)
(***************************************************************************)
MaxNoiseCalls == 3

\* the TerrainEngine's seed and the constructor's default
Seeds == {TerrainSeed, 1337}

NoisePoints == {<<250, 700>>, <<-3300, 12800>>}

NoiseArgs ==
    {[op |-> "noise", x |-> p[1], y |-> p[2], f |-> 65,
      octaves |-> 0, lacunarity |-> 0, gain |-> 0] : p \in NoisePoints}

FractalArgs ==
    {[op |-> "fractal", x |-> p[1], y |-> p[2], f |-> Scale,
      octaves |-> 3, lacunarity |-> 2 * Scale, gain |-> 520] : p \in NoisePoints}

InitNoise ==
    /\ simplex \in {<<Simplexish(s1), Simplexish(s2)>> : s1 \in Seeds, s2 \in Seeds}
    /\ noiseCalls = <<>>
    /\ data = [locations |-> <<>>, connections |-> <<>>]
    /\ now = Now0
    /\ bundles = <<>>
    /\ SynthIdle
    /\ RemapIdle
    /\ SceneIdle

\* the bug of a generator that advances its seed with every call
simplexReseeded(inst) == [inst EXCEPT !.seed = inst.seed + 1]

\* the instance after noise or fractal returned: neither assigns a field
simplexAfterCall(inst) == inst

\* instance k called with the arguments a, out being what it returns
called(k, a, out) ==
    /\ Len(noiseCalls) < MaxNoiseCalls
    /\ noiseCalls' = Append(noiseCalls,
           [inst |-> k, given |-> simplex[k].given, args |-> a, out |-> out])
    /\ simplex' = [simplex EXCEPT ![k] = simplexAfterCall(simplex[k])]
    /\ UNCHANGED <<mapVars, synthVars, remapVars, sceneVars>>

\* simplex[k].noise(x, y, f)
NoiseCall ==
    \E k \in DOMAIN simplex : \E a \in NoiseArgs :
        called(k, a, noise(simplex[k].seed, a.x, a.y, a.f))

\* simplex[k].fractal(x, y, octaves, lacunarity, gain, baseFreq)
FractalCall ==
    \E k \in DOMAIN simplex : \E a \in FractalArgs :
        called(k, a, fractal(simplex[k].seed, a.x, a.y, a.octaves, a.lacunarity,
                             a.gain, a.f))

NextNoise == NoiseCall \/ FractalCall

SpecNoise == InitNoise /\ [][NextNoise]_vars

\* C15: the noise primitive is deterministic and stateless: for a given
\* seed, noise and fractal return the same value on every call with the same
\* arguments, whatever calls were made before and on whatever instance.
NoiseIsDeterministic ==
    \A i, j \in DOMAIN noiseCalls :
        (noiseCalls[i].given = noiseCalls[j].given /\ noiseCalls[i].args = noiseCalls[j].args)
            => noiseCalls[i].out = noiseCalls[j].out

\* an instance called twice with the same arguments, with a call of the
\* instance of another seed in between that returned another value for them
NoiseRepeatedWitness ==
    /\ Len(noiseCalls) = 3
    /\ noiseCalls[1].inst = noiseCalls[3].inst
    /\ noiseCalls[1].args = noiseCalls[3].args
    /\ noiseCalls[2].inst # noiseCalls[1].inst
    /\ noiseCalls[2].args = noiseCalls[1].args
    /\ noiseCalls[2].out # noiseCalls[1].out
    /\ noiseCalls[1].out = noiseCalls[3].out

(***************************************************************************)
(* Properties of positionFromData                                          *)
(***************************************************************************)
\* the values new Date().getTime() can have had when a bundle was made
Clocks == {Now0 + k * 24 : k \in 0..MaxTicks}

\* the hubs of a bundle, one per location and in the locations' order
Hubs(b) == SelectSeq(b.mapped, IsHub)

\* the location at index i is the one its id is laid out for
LaidOut(locs, i) == \A j \in DOMAIN locs : locs[j].id = locs[i].id => j <= i

\* the x of the claim's language axis where the claim gives it
ClaimedLanguageX(lb) ==
    IF lb <= -1 * Scale THEN -150 * Scale
    ELSE IF lb >= Scale THEN 150 * Scale
    ELSE 0

\* the position with the language axis at xLang, the spiral of the model
\* for the clock c and the per-index jitter
PositionWith(locs, i, xLang, c) ==
    LET tPos == timeSpiral(representativeYear(locs, i, c),
                           minYearOf(locs, c), maxYearOf(locs, c))
        j == layoutJitter(i - 1, locs[i].isVisit)
    IN  <<FMul(xLang, 700) + FMul(tPos[1], 300) + j[1], 0, tPos[3] + j[2]>>

NoYears(locs) ==
    \A i \in DOMAIN locs :
        locs[i].periodStart = 0 /\ locs[i].periodEnd = 0 /\ locs[i].year = 0

\* the position of the claim for a location placed at year (fixed point) of
\* the era minYear..maxYear
PlacedAt(locs, i, year, minYear, maxYear) ==
    LET tPos == timeSpiral(year, minYear, maxYear)
        j == layoutJitter(i - 1, locs[i].isVisit)
    IN  <<FMul(languageX(locs[i].languageBalance), 700) + FMul(tPos[1], 300) + j[1],
          0, tPos[3] + j[2]>>

SpiralTimeInUnit ==
    \A i \in DOMAIN data.locations :
        LET t == spiralT(representativeYear(data.locations, i, now),
                         minYearOf(data.locations, now), maxYearOf(data.locations, now))
        IN  0 <= t /\ t <= Scale

\* a mapped journey of two locations at the two ends of the observed years
SpiralTimeWitness ==
    /\ Len(bundles) >= 1
    /\ Len(data.locations) = 2
    /\ spiralT(representativeYear(data.locations, 1, now),
               minYearOf(data.locations, now), maxYearOf(data.locations, now)) = Scale
    /\ spiralT(representativeYear(data.locations, 2, now),
               minYearOf(data.locations, now), maxYearOf(data.locations, now)) = 0

IdAtoms == {"a", "b", "c", "s", "l"}

\* the numbers a child id can end in
IdNumbers == 0..9

\* m.id.match(/::mem-(\d+)/) with parseInt(match[1], 10): <<n>> for the first
\* "::mem-" followed by digits, <<>> for no match.  Strings are atoms of the
\* model, the match is found among the ids built from IdAtoms
matchMemIndex(id) ==
    LET hits == {n \in IdNumbers :
                    \E a \in IdAtoms : id = a \o "::mem-" \o ToString(n)}
    IN  IF hits = {} THEN <<>> ELSE <<CHOOSE n \in hits : TRUE>>

\* locationData.find((l) => l.id === id) as an index, 0 for undefined
findLocation(locs, id) ==
    IF \E i \in DOMAIN locs : locs[i].id = id
    THEN SetMin({i \in DOMAIN locs : locs[i].id = id})
    ELSE 0

\* resolveMetaForMapped(m, locationData): <<>> for null, else the index of
\* loc in locationData, memoryIndex and whether a memory was found
resolveMetaForMapped(m, locs) ==
    IF m.parentLocationId # <<>> /\ m.parentLocationId # <<"">>
    THEN LET parent == findLocation(locs, m.parentLocationId[1])
             idx == OrElse(matchMemIndex(m.id), 0)
         IN  IF parent = 0 THEN <<>>
             ELSE <<[loc |-> parent, memoryIndex |-> idx,
                     memory |-> idx + 1 \in DOMAIN locs[parent].memories]>>
    ELSE LET loc == findLocation(locs, m.id)
         IN  IF loc = 0 THEN <<>>
             ELSE <<[loc |-> loc, memoryIndex |-> -1, memory |-> FALSE]>>

\* the index in mapped of the hub of location i
HubIndex(locs, i) == i + TotalEvents(SubSeq(locs, 1, i - 1))

\* C21: the child for event k of a location with n events has id
\* '<locationId>::mem-<k>', parentLocationId equal to the hub's id,
\* memoryIndex = k and memoryCount = n, k covering 0..n-1 in the order of the
\* events; hubs carry no parentLocationId, and the index the card layer
\* parses back from a child id equals memoryIndex.
ChildIdentity ==
    \A b \in DOMAIN bundles :
        \A i \in DOMAIN data.locations :
            LET loc == data.locations[i]
                h == HubIndex(data.locations, i)
                mapped == bundles[b].mapped
            IN  /\ mapped[h].id = loc.id
                /\ mapped[h].parentLocationId = <<>>
                /\ \A k \in 0..(Len(loc.memories) - 1) :
                       LET m == mapped[h + 1 + k]
                           meta == resolveMetaForMapped(m, data.locations)
                       IN  /\ m.id = loc.id \o "::mem-" \o ToString(k)
                           /\ m.parentLocationId = <<mapped[h].id>>
                           /\ m.memoryIndex = <<k>>
                           /\ m.memoryCount = <<Len(loc.memories)>>
                           /\ meta # <<>>
                           /\ <<meta[1].memoryIndex>> = m.memoryIndex

\* a mapped location with two events whose second child resolves to index 1
\* and to its memory
ChildIdentityWitness ==
    /\ Len(bundles) > 0
    /\ Len(data.locations) >= 1
    /\ Len(data.locations[1].memories) = 2
    /\ resolveMetaForMapped(bundles[1].mapped[3], data.locations)
           = <<[loc |-> 1, memoryIndex |-> 1, memory |-> TRUE]>>

(***************************************************************************)
(* The influence radius                                                    *)
(***************************************************************************)
\* the entries of the list whose distance to (x, z) is below their radius
InfluencingOnly(mapped, x, z) == SelectSeq(mapped, LAMBDA m : Influences(m, x, z))

\* C22: a location changes a sample's height only if its planar distance d
\* to the sample is strictly below its radius R (28 for a visit, 46
\* otherwise); for d >= R it leaves the running height unchanged: the height
\* is the one of the bundle without the locations at d >= R.
OutsideRadiusNoEffect ==
    terrain.generated =>
        \A i \in 1..VertexCount :
            LET f == terrain.features[1]
            IN  terrain.y[i]
                    = FoldedHeight(i, [f EXCEPT !.mapped =
                                          InfluencingOnly(f.mapped, VertexX(i - 1),
                                                          VertexZ(i - 1))])

\* a generated vertex with a location inside its radius and one outside,
\* and a vertex that every location of the bundle is outside of
OutsideRadiusWitness ==
    /\ terrain.generated
    /\ LET f == terrain.features[1]
       IN  /\ \E i \in 1..VertexCount :
                  LET near == InfluencingOnly(f.mapped, VertexX(i - 1), VertexZ(i - 1))
                  IN  near # <<>> /\ Len(near) < Len(f.mapped)
           /\ \E i \in 1..VertexCount :
                  /\ f.mapped # <<>>
                  /\ InfluencingOnly(f.mapped, VertexX(i - 1), VertexZ(i - 1)) = <<>>
                  /\ terrain.y[i] = FoldedHeight(i, [f EXCEPT !.mapped = <<>>])

(***************************************************************************)
(* The latitude band                                                       *)
(***************************************************************************)
\* C23: for every MappedLocation position mapJourneyToFeatures produces
\* (hubs and children), posToSpherical yields a polar angle phi inside the
\* latitude band [0.2 pi, 0.8 pi]: no location is mapped onto or past a pole.
PhiInLatitudeBand ==
    \A b \in DOMAIN bundles :
        \A k \in DOMAIN bundles[b].mapped :
            LET phi == posToSpherical(bundles[b].mapped[k].pos).phi
            IN  FMul(200, Pi) <= phi /\ phi <= FMul(800, Pi)

(***************************************************************************)
(* soundEngine.ts: the SoundEngine's start and stop                        *)
(***************************************************************************)
MaxSoundCalls == 6

\* a source node the AudioContext created: how often start and stop were
\* invoked on it, and whether a start came after a stop
SourceNode(kind) == [kind |-> kind, starts |-> 0, stops |-> 0, lateStart |-> FALSE]

\* node.start(when)
nodeStarted(n) ==
    [n EXCEPT !.starts = @ + 1, !.lateStart = @ \/ n.stops > 0]

\* node.stop(when)
nodeStopped(n) == [n EXCEPT !.stops = @ + 1]

\* ensureContext(): nothing when the context exists; otherwise the context,
\* three oscillators pushed to padOscs in turn, then the noise source
ensureContext(s) ==
    IF s.audioCtx THEN s
    ELSE LET n == Len(s.nodes)
         IN  [s EXCEPT !.audioCtx = TRUE,
                       !.nodes = @ \o <<SourceNode("osc"), SourceNode("osc"),
                                        SourceNode("osc"), SourceNode("noise")>>,
                       !.padOscs = @ \o <<n + 1, n + 2, n + 3>>,
                       !.noiseSource = <<n + 4>>]

\* the nodes the engine holds: padOscs, and noiseSource unless it is null
Held(s) == {s.padOscs[i] : i \in DOMAIN s.padOscs} \cup
           {s.noiseSource[i] : i \in DOMAIN s.noiseSource}

\* start(): ensureContext(); return if started; start every pad oscillator
\* and the noise source (noiseSource?.start); started = true
soundStarted(s) ==
    LET e == ensureContext(s)
    IN  IF ~e.audioCtx \/ e.started THEN e
        ELSE [e EXCEPT !.nodes = [i \in DOMAIN e.nodes |->
                                    IF i \in Held(e) THEN nodeStarted(e.nodes[i])
                                    ELSE e.nodes[i]],
                       !.started = TRUE]

\* the bug of a stop that keeps its references to the stopped nodes
soundStoppedKeepingNodes(s) ==
    IF ~s.audioCtx \/ ~s.started THEN s
    ELSE [s EXCEPT !.nodes = [i \in DOMAIN s.nodes |->
                                IF i \in Held(s) THEN nodeStopped(s.nodes[i])
                                ELSE s.nodes[i]],
                   !.started = FALSE]

\* stop(): return unless started; stop every pad oscillator and the noise
\* source; padOscs = [], noiseSource = null, started = false.  audioCtx stays
soundStopped(s) ==
    IF ~s.audioCtx \/ ~s.started THEN s
    ELSE [s EXCEPT !.nodes = [i \in DOMAIN s.nodes |->
                                IF i \in Held(s) THEN nodeStopped(s.nodes[i])
                                ELSE s.nodes[i]],
                   !.padOscs = <<>>,
                   !.noiseSource = <<>>,
                   !.started = FALSE]

InitSound ==
    /\ data = [locations |-> <<>>, connections |-> <<>>]
    /\ now = Now0
    /\ bundles = <<>>
    /\ SynthIdle
    /\ RemapIdle
    /\ NoiseIdle
    /\ SceneIdle

SoundStart ==
    /\ Len(sound.calls) < MaxSoundCalls
    /\ sound' = [soundStarted(sound) EXCEPT !.calls = Append(@, "start")]
    /\ UNCHANGED <<mapVars, synthVars, remapVars, noiseVars, cards, focus, camera>>

SoundStop ==
    /\ Len(sound.calls) < MaxSoundCalls
    /\ sound' = [soundStopped(sound) EXCEPT !.calls = Append(@, "stop")]
    /\ UNCHANGED <<mapVars, synthVars, remapVars, noiseVars, cards, focus, camera>>

NextSound == SoundStart \/ SoundStop

SpecSound == InitSound /\ [][NextSound]_vars

\* C24: over any sequence of start() and stop() calls, no oscillator and no
\* noise source has start invoked on it more than once, and none has start
\* invoked on it after stop was invoked on it
NoNodeRestarted ==
    \A i \in DOMAIN sound.nodes :
        sound.nodes[i].starts <= 1 /\ ~sound.nodes[i].lateStart

\* the engine was started, stopped and started again: its nodes were
\* started once and stopped once
NoNodeRestartedWitness ==
    /\ Len(sound.calls) >= 3
    /\ SubSeq(sound.calls, 1, 3) = <<"start", "stop", "start">>
    /\ \E i \in DOMAIN sound.nodes :
           sound.nodes[i].starts = 1 /\ sound.nodes[i].stops = 1

\* C25: whenever started is true the engine holds its three pad oscillators
\* and its noise source, each of them started and not stopped, also when the
\* start follows a stop
StartedHoldsRunningNodes ==
    sound.started =>
        /\ Len(sound.padOscs) = 3
        /\ Len(sound.noiseSource) = 1
        /\ \A i \in Held(sound) :
               sound.nodes[i].starts = 1 /\ sound.nodes[i].stops = 0

(***************************************************************************)
(* dataCardSystem.ts: the cards, their anchors and their activation        *)
(***************************************************************************)
\* THREE.Vector3 as <<x, y, z>>
VAdd(a, b) == <<a[1] + b[1], a[2] + b[2], a[3] + b[3]>>

VSub(a, b) == <<a[1] - b[1], a[2] - b[2], a[3] - b[3]>>

\* multiplyScalar
VScale(a, k) == <<FMul(a[1], k), FMul(a[2], k), FMul(a[3], k)>>

\* cross
VCross(a, b) ==
    <<FMul(a[2], b[3]) - FMul(a[3], b[2]),
      FMul(a[3], b[1]) - FMul(a[1], b[3]),
      FMul(a[1], b[2]) - FMul(a[2], b[1])>>

\* lengthSq, of a vector of about unit length
VLengthSq(a) == FMul(a[1], a[1]) + FMul(a[2], a[2]) + FMul(a[3], a[3])

\* normalize, of a vector of about unit length: divideScalar(length() || 1)
VNormalize(a) ==
    LET len == Sqrt(VLengthSq(a))
        d == IF len = 0 THEN Scale ELSE len
    IN  <<FDiv(a[1], d), FDiv(a[2], d), FDiv(a[3], d)>>

\* lerpVectors(v1, v2, alpha): v1 + (v2 - v1) * alpha by component
VLerp(a, b, t) == <<Lerp(a[1], b[1], t), Lerp(a[2], b[2], t), Lerp(a[3], b[3], t)>>

\* distanceTo; the squares are taken at 1/40 to stay in the word
VDistance(a, b) ==
    ISqrt(((a[1] - b[1]) \div 40) * ((a[1] - b[1]) \div 40)
          + ((a[2] - b[2]) \div 40) * ((a[2] - b[2]) \div 40)
          + ((a[3] - b[3]) \div 40) * ((a[3] - b[3]) \div 40)) * 40

\* sphericalToCartesian(theta, phi, r)
sphericalToCartesian(theta, phi, r) ==
    <<FMul(FMul(r, Sin(phi)), Cos(theta)), FMul(r, Cos(phi)),
      FMul(FMul(r, Sin(phi)), Sin(theta))>>

\* getSurfacePosition(pos): the spherical mapping at radius baseRadius + 12
getSurfacePosition(pos) ==
    LET sp == posToSpherical(pos)
    IN  sphericalToCartesian(sp.theta, sp.phi, (BaseRadius + 12) * Scale)

activationRadius == 55 * Scale

\* the lengths loc.name.length the ring angle of a memory card is drawn from
NameLengths == {5, 9}

\* createLocationCardMesh: the background plane, width 18 and height 0.7 of it
locationCardSize == <<18 * Scale, FMul(18 * Scale, 700)>>

\* createMemoryCardMesh: width 13, height 0.75 of it, scaled by the type
memoryCardSize(mem) ==
    LET h0 == FMul(13 * Scale, 750)
        h1 == IF mem.type = "receipt" THEN FMul(h0, 1250) ELSE h0
        h2 == IF mem.type = "photo" THEN FMul(h1, 900) ELSE h1
        h3 == IF mem.type = "letter" THEN FMul(h2, 1100) ELSE h2
    IN  <<13 * Scale, h3>>

\* the constructor's body for one mapped entry m with its resolved meta:
\* the i-th entry draws Math.random from the stream r at 6 * (i - 1)
cardOf(m, meta, locs, nameLength, r, i) ==
    LET k0 == 6 * (i - 1)
        sphereSurfacePos == getSurfacePosition(m.pos)
        flatSurfacePos == <<m.pos[1], 0, m.pos[3]>>
        isMemory == m.parentLocationId # <<>> /\ m.parentLocationId # <<"">>
        sp == posToSpherical(m.pos)
        \* sphereSurfacePos.clone().normalize(): the unit vector of its direction
        outward == VNormalize(sphericalToCartesian(sp.theta, sp.phi, Scale))
        t1 == VCross(<<0, Scale, 0>>, outward)
        tangent1 == VNormalize(IF VLengthSq(t1) < 1
                               THEN VCross(<<Scale, 0, 0>>, outward) ELSE t1)
        tangent2 == VNormalize(VCross(outward, tangent1))
        hubPos ==
            LET baseDistance == 28 * Scale + Random(r, k0) * 14
                spread == 10 * Scale
            IN  VAdd(VAdd(VAdd(sphereSurfacePos, VScale(outward, baseDistance)),
                          VScale(tangent1, FMul(Random(r, k0 + 1) - 500, spread))),
                     VScale(tangent2, FMul(Random(r, k0 + 2) - 500, spread)))
        memoryPos ==
            LET idx == OrElse(m.memoryIndex, meta.memoryIndex)
                count == OrElse(m.memoryCount, Len(locs[meta.loc].memories))
                ringRadius == (26 + 4 * idx) * Scale
                angle == FMul(FDiv(idx * Scale, Max(1, count) * Scale), 2 * Pi)
                         + count * 150 + (nameLength % 7) * 80
                ringOffset == VAdd(VScale(tangent1, FMul(Cos(angle), ringRadius)),
                                   VScale(tangent2, FMul(Sin(angle), ringRadius)))
                ampLayer == FMul(m.amplitude, 600)
            IN  VAdd(VAdd(VAdd(sphereSurfacePos, VScale(outward, 18 * Scale)),
                          ringOffset),
                     VScale(outward, ampLayer))
        cardPosSphere == IF isMemory THEN memoryPos ELSE hubPos
        baseOffset == VSub(cardPosSphere, sphereSurfacePos)
        surfacePos == flatSurfacePos
        cardPos == VAdd(flatSurfacePos, baseOffset)
        tiltX == FMul(Random(r, k0 + 3) - 500, 400)
        tiltY == FMul(Random(r, k0 + 4) - 500, 400)
    IN  [mapped |-> m.id,
         parentLocationId |-> m.parentLocationId,
         surfacePos |-> surfacePos,
         cardPos |-> cardPos,
         cardMesh |-> cardPos,
         rotation |-> <<tiltX, tiltY>>,
         size |-> IF isMemory /\ meta.memory
                  THEN memoryCardSize(locs[meta.loc].memories[meta.memoryIndex + 1])
                  ELSE locationCardSize,
         tiltX |-> tiltX,
         tiltY |-> tiltY,
         anchorDot |-> surfacePos,
         activation |-> 0,
         targetActivation |-> 0,
         floatPhase |-> FMul(Random(r, k0 + 5), 2 * Pi),
         flatSurfacePos |-> flatSurfacePos,
         sphereSurfacePos |-> sphereSurfacePos,
         baseOffset |-> baseOffset]

\* new DataCardSystem(features, sphere, locationData): one card for every
\* mapped entry whose meta resolves, in the order of features.mapped.
\* morphT and pointer remember the last arguments of setMorphT and
\* updateMousePosition, updatesSince counts the updates since the last
\* updateMousePosition, calls counts the calls made
cardSystemOf(features, locs, nameLength, r) ==
    LET mapped == features.mapped
        resolved == SelectSeq([i \in DOMAIN mapped |-> i],
                              LAMBDA i : resolveMetaForMapped(mapped[i], locs) # <<>>)
    IN  [cards |-> [j \in DOMAIN resolved |->
                      cardOf(mapped[resolved[j]],
                             resolveMetaForMapped(mapped[resolved[j]], locs)[1],
                             locs, nameLength, r, resolved[j])],
         morphT |-> <<>>,
         pointer |-> "never",
         updatesSince |-> 0,
         calls |-> 0]

\* updateMousePosition(worldPosition), worldPosition = <<>> for null
mousePositionUpdated(cs, worldPosition) ==
    [cs EXCEPT
       !.cards = [i \in DOMAIN cs.cards |->
          LET card == cs.cards[i]
          IN  IF worldPosition # <<>>
              THEN LET distToCard == VDistance(card.cardPos, worldPosition[1])
                       distToSurface == VDistance(card.surfacePos, worldPosition[1])
                       minDist == Min(distToCard, distToSurface)
                   IN  With(Max(0, Scale - FDiv(minDist, activationRadius)),
                            LAMBDA t : [card EXCEPT !.targetActivation = FMul(t, t)])
              ELSE [card EXCEPT !.targetActivation = 0]],
       !.pointer = IF worldPosition = <<>> THEN "null" ELSE "position",
       !.updatesSince = 0]

\* the bug of a morph that extrapolates beyond the two anchors
morphUnclamped(t) == t

\* Math.max(0, Math.min(1, t))
morphClamped(t) == Max(0, Min(Scale, t))

\* setMorphT(t)
morphTSet(cs, t) ==
    LET clamped == morphClamped(t)
    IN  [cs EXCEPT
           !.cards = [i \in DOMAIN cs.cards |->
              LET card == cs.cards[i]
                  surfacePos == VLerp(card.flatSurfacePos, card.sphereSurfacePos,
                                      clamped)
              IN  [card EXCEPT !.surfacePos = surfacePos,
                               !.cardPos = VAdd(surfacePos, card.baseOffset),
                               !.anchorDot = surfacePos]],
           !.morphT = <<t>>]

\* the bug of an activation that overshoots on a long frame
lerpAlphaUnclamped(deltaTime) == deltaTime * 4

\* Math.min(1, deltaTime * lerpSpeed), lerpSpeed = 4
lerpAlpha(deltaTime) == Min(Scale, deltaTime * 4)

\* update(deltaTime, time): the activation moves towards its target and the
\* mesh floats about cardPos.  The opacities and the dot's scale that follow
\* are functions of the activation, read by the renderer only
cardsUpdated(cs, deltaTime, time) ==
    [cs EXCEPT
       !.cards = [i \in DOMAIN cs.cards |->
          LET card == cs.cards[i]
              floatY == FMul(Sin(FMul(time, 600) + card.floatPhase), 1400)
              floatX == FMul(Cos(FMul(time, 400) + card.floatPhase), 900)
              swayX == Sin(FMul(time, 500) + card.floatPhase)
              swayY == Cos(FMul(time, 350) + card.floatPhase)
          IN  With(<<floatX, floatY, swayX, swayY>>, LAMBDA w :
                [card EXCEPT
                   !.activation = Lerp(card.activation, card.targetActivation,
                                       lerpAlpha(deltaTime)),
                   !.cardMesh = VAdd(card.cardPos, <<w[1], w[2], 0>>),
                   !.rotation = <<card.tiltX + FMul(w[3], 50),
                                  card.tiltY + FMul(w[4], 50)>>])],
       !.updatesSince = @ + 1]

MaxCardCalls == 4

\* journeys whose locations have memories: hubs and memory cards
CardJourneys == {d \in SynthJourneys : d.locations # <<>>}

\* setMorphT's arguments: below 0, the bounds, between them, above 1
MorphTs == {-500, 0, 400, Scale, 1700}

\* update's arguments: deltaTime >= 0, a frame, the cap of animate, a stall
DeltaTimes == {0, 16, 100, 500}

FrameTimes == {1500}

\* the pointer's world positions: on a card, on its anchor, near it, far off
WorldPositions(cs) ==
    UNION {{cs.cards[i].cardPos, cs.cards[i].surfacePos,
            VAdd(cs.cards[i].surfacePos, <<20 * Scale, 0, 0>>)} : i \in {1}}
    \cup {<<500 * Scale, 0, 0>>}

InitCards ==
    /\ data \in CardJourneys
    /\ now = Now0
    /\ bundles = <<mapJourneyToFeatures(data, now)>>
    /\ SynthIdle
    /\ RemapIdle
    /\ NoiseIdle
    /\ sound = SoundEngine
    /\ \E nameLength \in NameLengths : \E r \in RandomStreams :
           cards = cardSystemOf(bundles[1], data.locations, nameLength, r)
    /\ focus = [focusMode |-> "none", focusedLocationId |-> <<>>,
                focusedMemoryIndex |-> <<>>]
    /\ camera = <<>>

UpdateMousePosition ==
    /\ cards.calls < MaxCardCalls
    /\ \E p \in {<<>>} \cup {<<w>> : w \in WorldPositions(cards)} :
          \E c \in {mousePositionUpdated(cards, p)} :
              cards' = [c EXCEPT !.calls = @ + 1]
    /\ UNCHANGED <<mapVars, synthVars, remapVars, noiseVars, sound, focus, camera>>

SetMorphT ==
    /\ cards.calls < MaxCardCalls
    /\ \E t \in MorphTs : \E c \in {morphTSet(cards, t)} :
          cards' = [c EXCEPT !.calls = @ + 1]
    /\ UNCHANGED <<mapVars, synthVars, remapVars, noiseVars, sound, focus, camera>>

CardsUpdate ==
    /\ cards.calls < MaxCardCalls
    /\ \E deltaTime \in DeltaTimes : \E time \in FrameTimes :
          \E c \in {cardsUpdated(cards, deltaTime, time)} :
              cards' = [c EXCEPT !.calls = @ + 1]
    /\ UNCHANGED <<mapVars, synthVars, remapVars, noiseVars, sound, focus, camera>>

NextCards == UpdateMousePosition \/ SetMorphT \/ CardsUpdate

SpecCards == InitCards /\ [][NextCards]_vars

\* every card's targetActivation and activation lie in [0, 1], and after
\* updateMousePosition(null) every targetActivation is 0
ActivationsInUnit ==
    \A i \in DOMAIN cards.cards :
        /\ 0 <= cards.cards[i].targetActivation
        /\ cards.cards[i].targetActivation <= Scale
        /\ 0 <= cards.cards[i].activation
        /\ cards.cards[i].activation <= Scale
        /\ cards.pointer = "null" => cards.cards[i].targetActivation = 0

\* while the pointer stays null no step increases an activation
NullPointerNeverActivates ==
    (cards.pointer = "null" /\ cards'.pointer = "null") =>
        \A i \in DOMAIN cards.cards :
            cards'.cards[i].activation <= cards.cards[i].activation

\* C26: over updateMousePosition(p or null) and update(deltaTime, time) with
\* deltaTime >= 0, every card's targetActivation and activation stay within
\* [0, 1]; after updateMousePosition(null) every targetActivation is 0 and
\* later updates never increase an activation
ActivationBounded == []ActivationsInUnit /\ [][NullPointerNeverActivates]_vars

\* a card was fully activated under the pointer, the pointer left, and an
\* update has lowered the activation since
ActivationBoundedWitness ==
    /\ cards.pointer = "null"
    /\ cards.updatesSince >= 1
    /\ \E i \in DOMAIN cards.cards :
           /\ cards.cards[i].activation > 0
           /\ cards.cards[i].activation < Scale
           /\ cards.cards[i].targetActivation = 0

\* the t of the last setMorphT moved to the nearest bound of [0, 1], 0
\* before any call
NearestMorphT ==
    IF cards.morphT = <<>> THEN 0
    ELSE IF cards.morphT[1] < 0 THEN 0
    ELSE IF cards.morphT[1] > Scale THEN Scale
    ELSE cards.morphT[1]

\* every card sits at its surface position plus its offset, its anchor dot
\* at the surface position, which is the interpolation of the two anchors
CardsAnchored ==
    \A i \in DOMAIN cards.cards :
        LET card == cards.cards[i]
        IN  /\ card.cardPos = VAdd(card.surfacePos, card.baseOffset)
            /\ card.anchorDot = card.surfacePos
            /\ card.surfacePos =
                   VLerp(card.flatSurfacePos, card.sphereSurfacePos, NearestMorphT)
            /\ cards.morphT = <<>> => card.surfacePos = card.flatSurfacePos

\* no step changes a card's anchors or its offset
AnchorsFixed ==
    /\ DOMAIN cards'.cards = DOMAIN cards.cards
    /\ \A i \in DOMAIN cards.cards :
           /\ cards'.cards[i].flatSurfacePos = cards.cards[i].flatSurfacePos
           /\ cards'.cards[i].sphereSurfacePos = cards.cards[i].sphereSurfacePos
           /\ cards'.cards[i].baseOffset = cards.cards[i].baseOffset

\* C27: after construction and after any setMorphT(t), every card has
\* cardPos = surfacePos + baseOffset and its anchor dot at surfacePos, where
\* surfacePos interpolates the flat and the sphere anchor at the last t
\* clamped to [0, 1] (the flat anchor before any call); a t outside [0, 1]
\* acts as the nearest bound; the anchors and baseOffset never change
CardsFollowMorph == []CardsAnchored /\ [][AnchorsFixed]_vars

\* setMorphT was last called with t above 1: the cards sit on the sphere
\* anchor, away from the flat one
CardsFollowMorphWitness ==
    /\ cards.morphT # <<>>
    /\ cards.morphT[1] > Scale
    /\ cards.calls >= 2
    /\ \E i \in DOMAIN cards.cards :
           /\ cards.cards[i].surfacePos = cards.cards[i].sphereSurfacePos
           /\ cards.cards[i].surfacePos # cards.cards[i].flatSurfacePos
           /\ cards.cards[i].baseOffset # <<0, 0, 0>>

(***************************************************************************)
(* TopographyScene.tsx: the focus state, its navigation and the camera     *)
(***************************************************************************)
\* !id of a string | null: null and the empty string are falsy
Falsy(id) == id = <<>> \/ id = <<"">>

NoNav == [prev |-> <<>>, next |-> <<>>]

\* the bug of a navigation that stops at the ends instead of wrapping
wrapStopping(i, count) == Min(Max(i, 0), count - 1)

\* (i + count) % count, for an i in -1 .. count
wrap(i, count) == (i + count) % count

\* getNavIds(mode, focusedLocationId, focusedMemoryIndex) over
\* journeyData.locations = locs; indices are those of the code, from 0
getNavIds(locs, mode, focusedLocationId, focusedMemoryIndex) ==
    IF Falsy(focusedLocationId) THEN NoNav
    ELSE IF mode = "memory"
    THEN LET loc == findLocation(locs, focusedLocationId[1])
         IN  IF loc = 0 \/ locs[loc].memories = <<>> THEN NoNav
             ELSE LET count == Len(locs[loc].memories)
                      idx == OrElse(focusedMemoryIndex, 0)
                      prevIdx == wrap(idx - 1, count)
                      nextIdx == wrap(idx + 1, count)
                  IN  [prev |-> <<focusedLocationId[1] \o "::mem-" \o ToString(prevIdx)>>,
                       next |-> <<focusedLocationId[1] \o "::mem-" \o ToString(nextIdx)>>]
    ELSE IF mode = "location"
    THEN LET index == findLocation(locs, focusedLocationId[1]) - 1
         IN  IF index = -1 THEN NoNav
             ELSE LET countLoc == Len(locs)
                  IN  [prev |-> <<locs[wrap(index - 1, countLoc) + 1].id>>,
                       next |-> <<locs[wrap(index + 1, countLoc) + 1].id>>]
    ELSE NoNav

\* the state of the three useState hooks
FocusState(mode, id, index) ==
    [focusMode |-> mode, focusedLocationId |-> id, focusedMemoryIndex |-> index]

\* the bug of a click that counts the memories from 1
focusOfMappedOneBased(card) ==
    IF ~Falsy(card.parentLocationId)
    THEN FocusState("memory", card.parentLocationId,
                    <<OrElse(matchMemIndex(card.mapped), 0) + 1>>)
    ELSE FocusState("location", <<card.mapped>>, <<>>)

\* onPointerDown's two branches set the focus from a card's mapped entry:
\* a memory card focuses its parent at the index parsed from its id
focusOfMapped(card) ==
    IF ~Falsy(card.parentLocationId)
    THEN FocusState("memory", card.parentLocationId,
                    <<OrElse(matchMemIndex(card.mapped), 0)>>)
    ELSE FocusState("location", <<card.mapped>>, <<>>)

\* id.split('::') and parseInt(memPart.replace('mem-', '')) of an id that
\* includes '::mem-': <<>> when it does not
splitMemId(id) ==
    LET hits == {h \in IdAtoms \X IdNumbers :
                    id = h[1] \o "::mem-" \o ToString(h[2])}
    IN  IF hits = {} THEN <<>> ELSE <<CHOOSE h \in hits : TRUE>>

\* the onClick of PREV and of NEXT after queueFocus, id = navIds.prev or .next
focusNavigated(f, id) ==
    IF f.focusMode = "location" THEN FocusState("location", <<id>>, <<>>)
    ELSE IF splitMemId(id) # <<>>
    THEN FocusState("memory", <<splitMemId(id)[1][1]>>, <<splitMemId(id)[1][2]>>)
    ELSE FocusState("location", <<id>>, <<>>)

\* hasFocusedLocationMemories
hasFocusedLocationMemories(locs, f) ==
    /\ f.focusedLocationId # <<>>
    /\ findLocation(locs, f.focusedLocationId[1]) # 0
    /\ locs[findLocation(locs, f.focusedLocationId[1])].memories # <<>>

\* the focus/navigation HUD is rendered
HudShown(f) == f.focusMode # "none" /\ ~Falsy(f.focusedLocationId)

\* the scene's effect after mount: the camera at (210, 110, 210) looking at
\* (0, 10, 0), no focus request, no transition, the pointer nowhere.
\* pointHit is what the raycast at the pointer's place hits on the cloud
\* (<<>> for nothing); events counts the pointer and HUD events handled,
\* lastEvent names the last of them and focusBefore the focus it found
SceneCamera ==
    LET position == <<210 * Scale, 110 * Scale, 210 * Scale>>
        target == <<0, 10 * Scale, 0>>
    IN  [position |-> position,
         target |-> target,
         focusState |-> [active |-> FALSE, fromPos |-> position,
                         fromTarget |-> target, toPos |-> position,
                         toTarget |-> target, t |-> 0],
         pendingFocusId |-> <<>>,
         selected |-> <<>>,
         hoverDirty |-> FALSE,
         pointHit |-> <<>>,
         mouseWorld |-> <<>>,
         lastHoveredId |-> <<>>,
         events |-> 0,
         lastEvent |-> "mount",
         focusBefore |-> FocusState("none", <<>>, <<>>)]

minDistance == 15 * Scale
maxDistance == 450 * Scale

\* cards.find((c) => c.mapped.id === id) as an index, 0 for undefined
findCard(cs, id) ==
    IF \E i \in DOMAIN cs.cards : cs.cards[i].mapped = id
    THEN SetMin({i \in DOMAIN cs.cards : cs.cards[i].mapped = id})
    ELSE 0

\* where a focus on the card puts the camera and its target: the card's
\* world position (the groups are not rotated, sceneRotationSpeed = 0), its
\* axes forward and up after rotation.x and rotation.y, and the distance at
\* which the larger side of its bounding box fills the 50 degree view
focusPose(card) ==
    LET a == card.rotation[1]
        b == card.rotation[2]
        worldPos == card.cardMesh
        trig == <<Sin(a), Cos(a), Sin(b), Cos(b)>>
    IN  With(trig, LAMBDA g :
          LET forward == <<g[3], -FMul(g[1], g[4]), FMul(g[2], g[4])>>
              up == <<0, g[2], g[1]>>
              sizeX == FMul(card.size[1], Abs(g[4]))
              sizeY == FMul(card.size[2], Abs(g[2]))
                       + FMul(card.size[1], Abs(FMul(g[1], g[3])))
              maxDim == Max(sizeX, sizeY)
              \* 2 * tan(25 degrees) = 0.933
              baseDistance == FDiv(maxDim, 933)
          IN  With(<<forward, up, FMul(baseDistance, 900)>>, LAMBDA h :
                [toPos |-> VAdd(worldPos, VScale(h[1], h[3])),
                 toTarget |-> VAdd(worldPos, VScale(h[2], 500))]))

\* animate, the pending request: a request for a card starts a transition
\* from where the camera is; any request is dropped
requestConsumed(c, cs) ==
    IF Falsy(c.pendingFocusId) THEN c
    ELSE With(findCard(cs, c.pendingFocusId[1]), LAMBDA i :
           IF i = 0 THEN [c EXCEPT !.pendingFocusId = <<>>]
           ELSE With(focusPose(cs.cards[i]), LAMBDA pose :
                  [c EXCEPT !.focusState =
                                [active |-> TRUE,
                                 fromPos |-> c.position,
                                 fromTarget |-> c.target,
                                 toPos |-> pose.toPos,
                                 toTarget |-> pose.toTarget,
                                 t |-> 0],
                            !.selected = <<cs.cards[i].mapped>>,
                            !.pendingFocusId = <<>>]))

\* animate, the hover: after a pointer move the card nearest to the hit
\* within 20, the first of the nearest, becomes lastHoveredId
hoverResolved(c, cs) ==
    IF ~c.hoverDirty THEN c
    ELSE LET mouseWorld == c.pointHit
             near == IF mouseWorld = <<>> THEN {}
                     ELSE {i \in DOMAIN cs.cards :
                             VDistance(cs.cards[i].cardMesh, mouseWorld[1]) < 20 * Scale}
             best == {i \in near : \A j \in near :
                        VDistance(cs.cards[i].cardMesh, mouseWorld[1])
                            <= VDistance(cs.cards[j].cardMesh, mouseWorld[1])}
         IN  [c EXCEPT !.hoverDirty = FALSE,
                       !.mouseWorld = mouseWorld,
                       !.lastHoveredId = IF best = {} THEN <<>>
                                         ELSE <<cs.cards[SetMin(best)].mapped>>]

\* Math.min(focusState.t + deltaTime / duration, 1), duration = 0.8
transitionT(t, deltaTime) == Min(t + FDiv(deltaTime, 800), Scale)

\* animate, the transition: t advances, the camera and the controls' target
\* move along the eased path, and the transition ends at t >= 1
transitionStepped(c, deltaTime) ==
    IF ~c.focusState.active THEN c
    ELSE LET t == transitionT(c.focusState.t, deltaTime)
             u == Scale - t
         IN  With(Scale - FMul(FMul(u, u), u), LAMBDA ease :
               [c EXCEPT !.focusState.t = t,
                         !.position = VLerp(c.focusState.fromPos, c.focusState.toPos,
                                            ease),
                         !.target = VLerp(c.focusState.fromTarget,
                                          c.focusState.toTarget, ease),
                         !.focusState.active = ~(t >= Scale)])

\* controls.update() of the OrbitControls with no gesture under way: the
\* camera is kept on its ray from the target at a distance within
\* [minDistance, maxDistance]
controlsUpdated(c) ==
    With(VDistance(c.position, c.target), LAMBDA radius :
      LET offset == VSub(c.position, c.target)
          clamped == Max(minDistance, Min(maxDistance, radius))
      IN  IF radius = 0 \/ clamped = radius THEN c
          ELSE With(FDiv(clamped, radius), LAMBDA k :
                 [c EXCEPT !.position = VAdd(c.target, VScale(offset, k))]))

\* one animation frame: the request, the hover, the cards, the transition
\* and the controls, in this order
framed(c, cs, deltaTime, time) ==
    With(requestConsumed(c, cs), LAMBDA c0 :
      With(hoverResolved(c0, cs), LAMBDA c1 :
        With(transitionStepped(c1, deltaTime), LAMBDA c2 :
          With(mousePositionUpdated(cs, c1.mouseWorld), LAMBDA cs1 :
            [camera |-> controlsUpdated(c2),
             cards |-> cardsUpdated(cs1, deltaTime, time)]))))

MaxSceneEvents == 2

MaxFocusEvents == 4

\* journeys of locations with distinct ids, as the dataset's: three
\* locations of which the first has two memories; one location with three
\* memories; two locations of which the last has one memory
FocusJourneys ==
    {[locations |-> <<CHOOSE l \in StructLocs : l.id = "a" /\ l.periodEnd # 0,
                      CHOOSE l \in StructLocs : l.id = "b",
                      CHOOSE l \in StructLocs : l.id = "c">>,
      connections |-> <<>>],
     [locations |-> <<Loc("s", Month(2015, 3), 0, 0,
                          <<400, 200, -300, 700, <<>>, FALSE, <<300, 600, 900>>>>,
                          <<Doc("photo", <<500>>, "zh"), Doc("document", <<>>, "en"),
                            Doc("receipt", <<-200>>, "en")>>)>>,
      connections |-> <<>>],
     [locations |-> <<CHOOSE l \in StructLocs : l.id = "b",
                      CHOOSE l \in StructLocs : l.id = "a" /\ l.year = 2010>>,
      connections |-> <<[from |-> "b", to |-> "a", weight |-> <<1500>>]>>]}

\* the journey of the animated scene: two hubs and one memory card
SceneJourneys == {d \in FocusJourneys : Len(d.locations) = 2}

\* the ids queueFocus is called with through queueFocusRef: those of the
\* cards and one that names no card
QueuedIds(cs) == {cs.cards[i].mapped : i \in DOMAIN cs.cards} \cup {"zz"}

\* deltaTime = Math.min(elapsed - lastTime, 0.1): no time passed, or the cap
FrameDeltaTimes == {0, 100}

InitScene ==
    /\ data \in SceneJourneys
    /\ now = Now0
    /\ bundles = <<mapJourneyToFeatures(data, now)>>
    /\ SynthIdle
    /\ RemapIdle
    /\ NoiseIdle
    /\ sound = SoundEngine
    /\ cards = cardSystemOf(bundles[1], data.locations, 5, 617)
    /\ focus = FocusState("none", <<>>, <<>>)
    /\ camera = SceneCamera

\* onPointerMove
PointerMove(limit) ==
    /\ camera.events < limit
    /\ \E hit \in {<<>>, <<cards.cards[1].cardMesh>>} :
          camera' = [camera EXCEPT !.hoverDirty = TRUE, !.pointHit = hit,
                                   !.events = @ + 1,
                    !.lastEvent = "move", !.focusBefore = focus]
    /\ UNCHANGED <<mapVars, synthVars, remapVars, noiseVars, sound, cards, focus>>

\* onPointerDown: hit is the card the ray meets first, 0 for none
PointerDown(limit) ==
    /\ camera.events < limit
    /\ sound' = soundStarted(sound)
    /\ \E hit \in {0} \cup DOMAIN cards.cards :
          IF hit # 0
          THEN /\ focus' = focusOfMapped(cards.cards[hit])
               /\ camera' = [camera EXCEPT !.pendingFocusId = <<cards.cards[hit].mapped>>,
                                           !.events = @ + 1,
                    !.lastEvent = "pointerdown", !.focusBefore = focus]
          ELSE IF ~Falsy(camera.lastHoveredId)
          THEN /\ focus' = IF findCard(cards, camera.lastHoveredId[1]) # 0
                           THEN focusOfMapped(
                                    cards.cards[findCard(cards, camera.lastHoveredId[1])])
                           ELSE focus
               /\ camera' = [camera EXCEPT !.pendingFocusId = camera.lastHoveredId,
                                           !.events = @ + 1,
                    !.lastEvent = "pointerdown", !.focusBefore = focus]
          ELSE /\ focus' = focus
               /\ camera' = [camera EXCEPT !.events = @ + 1,
                    !.lastEvent = "pointerdown", !.focusBefore = focus]
    /\ UNCHANGED <<mapVars, synthVars, remapVars, noiseVars, cards>>

\* the onClick of PREV
Prev(limit) ==
    /\ camera.events < limit
    /\ HudShown(focus)
    /\ LET navIds == getNavIds(data.locations, focus.focusMode,
                               focus.focusedLocationId, focus.focusedMemoryIndex)
       IN  /\ ~Falsy(navIds.prev)
           /\ camera' = [camera EXCEPT !.pendingFocusId = navIds.prev,
                                       !.events = @ + 1,
                    !.lastEvent = "prev", !.focusBefore = focus]
           /\ focus' = focusNavigated(focus, navIds.prev[1])
    /\ UNCHANGED <<mapVars, synthVars, remapVars, noiseVars, sound, cards>>

\* the onClick of NEXT
NextItem(limit) ==
    /\ camera.events < limit
    /\ HudShown(focus)
    /\ LET navIds == getNavIds(data.locations, focus.focusMode,
                               focus.focusedLocationId, focus.focusedMemoryIndex)
       IN  /\ ~Falsy(navIds.next)
           /\ camera' = [camera EXCEPT !.pendingFocusId = navIds.next,
                                       !.events = @ + 1,
                    !.lastEvent = "next", !.focusBefore = focus]
           /\ focus' = focusNavigated(focus, navIds.next[1])
    /\ UNCHANGED <<mapVars, synthVars, remapVars, noiseVars, sound, cards>>

\* the onClick of ENTER MEMORIES
EnterMemories(limit) ==
    /\ camera.events < limit
    /\ HudShown(focus)
    /\ focus.focusMode = "location"
    /\ hasFocusedLocationMemories(data.locations, focus)
    /\ focus' = [focus EXCEPT !.focusMode = "memory", !.focusedMemoryIndex = <<0>>]
    /\ camera' = [camera EXCEPT
                    !.pendingFocusId = <<focus.focusedLocationId[1] \o "::mem-0">>,
                    !.events = @ + 1,
                    !.lastEvent = "enter", !.focusBefore = focus]
    /\ UNCHANGED <<mapVars, synthVars, remapVars, noiseVars, sound, cards>>

\* the onClick of EXIT TO LOCATION
ExitToLocation(limit) ==
    /\ camera.events < limit
    /\ HudShown(focus)
    /\ focus.focusMode = "memory"
    /\ focus' = [focus EXCEPT !.focusMode = "location", !.focusedMemoryIndex = <<>>]
    /\ camera' = [camera EXCEPT !.pendingFocusId = focus.focusedLocationId,
                                !.events = @ + 1,
                    !.lastEvent = "exit", !.focusBefore = focus]
    /\ UNCHANGED <<mapVars, synthVars, remapVars, noiseVars, sound, cards>>

\* the onClick of CLOSE
Close(limit) ==
    /\ camera.events < limit
    /\ HudShown(focus)
    /\ focus' = FocusState("none", <<>>, <<>>)
    /\ camera' = [camera EXCEPT !.selected = <<>>, !.events = @ + 1,
                    !.lastEvent = "close", !.focusBefore = focus]
    /\ UNCHANGED <<mapVars, synthVars, remapVars, noiseVars, sound, cards>>

\* queueFocus(id)
QueueFocus(limit) ==
    /\ camera.events < limit
    /\ \E id \in QueuedIds(cards) :
          camera' = [camera EXCEPT !.pendingFocusId = <<id>>, !.events = @ + 1,
                    !.lastEvent = "queue", !.focusBefore = focus]
    /\ UNCHANGED <<mapVars, synthVars, remapVars, noiseVars, sound, cards, focus>>

\* animate, one frame with this deltaTime
Frame(deltaTime) ==
    /\ \E time \in FrameTimes :
          \E f \in {framed(camera, cards, deltaTime, time)} :
              /\ camera' = f.camera
              /\ cards' = f.cards
    /\ UNCHANGED <<mapVars, synthVars, remapVars, noiseVars, sound, focus>>

AnyFrame == \E deltaTime \in FrameDeltaTimes : Frame(deltaTime)

NextScene ==
    \/ PointerMove(MaxSceneEvents)
    \/ PointerDown(MaxSceneEvents)
    \/ Prev(MaxSceneEvents)
    \/ NextItem(MaxSceneEvents)
    \/ EnterMemories(MaxSceneEvents)
    \/ ExitToLocation(MaxSceneEvents)
    \/ Close(MaxSceneEvents)
    \/ QueueFocus(MaxSceneEvents)
    \/ AnyFrame

SpecScene == InitScene /\ [][NextScene]_vars

\* the scene between two frames, the pointer resting on a card or on none:
\* the HUD and pointer events alone
InitFocus ==
    /\ data \in FocusJourneys
    /\ now = Now0
    /\ bundles = <<mapJourneyToFeatures(data, now)>>
    /\ SynthIdle
    /\ RemapIdle
    /\ NoiseIdle
    /\ sound = SoundEngine
    /\ cards = cardSystemOf(bundles[1], data.locations, 5, 617)
    /\ focus = FocusState("none", <<>>, <<>>)
    /\ \E hovered \in {<<>>} \cup {<<cards.cards[i].mapped>> : i \in DOMAIN cards.cards} :
           camera = [SceneCamera EXCEPT !.lastHoveredId = hovered]

NextFocus ==
    \/ PointerDown(MaxFocusEvents)
    \/ Prev(MaxFocusEvents)
    \/ NextItem(MaxFocusEvents)
    \/ EnterMemories(MaxFocusEvents)
    \/ ExitToLocation(MaxFocusEvents)
    \/ Close(MaxFocusEvents)

SpecFocus == InitFocus /\ [][NextFocus]_vars

\* C28: after any sequence of card clicks, PREV, NEXT, ENTER MEMORIES, EXIT
\* TO LOCATION and CLOSE the focus state is consistent: focusMode is 'none'
\* exactly when focusedLocationId is null; in 'location' mode
\* focusedMemoryIndex is null; in 'memory' mode focusedMemoryIndex is the
\* index of an existing memory of the focused location
FocusConsistent ==
    /\ focus.focusMode \in {"none", "location", "memory"}
    /\ focus.focusMode = "none" <=> focus.focusedLocationId = <<>>
    /\ focus.focusMode = "location" => focus.focusedMemoryIndex = <<>>
    /\ focus.focusMode = "memory" =>
           /\ focus.focusedMemoryIndex # <<>>
           /\ findLocation(data.locations, focus.focusedLocationId[1]) # 0
           /\ focus.focusedMemoryIndex[1] + 1 \in
                  DOMAIN data.locations[findLocation(data.locations,
                                            focus.focusedLocationId[1])].memories

\* after four events the HUD is on the last of three memories
FocusConsistentWitness ==
    /\ camera.events = MaxFocusEvents
    /\ camera.lastEvent = "next"
    /\ camera.focusBefore.focusedMemoryIndex = <<1>>
    /\ focus.focusMode = "memory"
    /\ focus.focusedMemoryIndex = <<2>>
    /\ camera.pendingFocusId = <<focus.focusedLocationId[1] \o "::mem-2">>

\* the ids PREV and NEXT lead to from the focus f
NavOf(f) ==
    getNavIds(data.locations, f.focusMode, f.focusedLocationId, f.focusedMemoryIndex)

\* C29: getNavIds navigates cyclically: in 'location' mode next of the last
\* location is the first and prev of the first is the last, in 'memory' mode
\* the same over the memories of the focused location; NEXT followed by PREV
\* and PREV followed by NEXT return to the item that was focused; with no
\* focused location prev and next are null
NavIsCyclic ==
    LET locs == data.locations
        n == Len(locs)
        nav == NavOf(focus)
    IN  /\ focus.focusedLocationId = <<>> => nav = NoNav
        /\ \A mode \in {"none", "location", "memory"} : \A idx \in {<<>>, <<0>>, <<1>>} :
               getNavIds(locs, mode, <<>>, idx) = NoNav
        /\ focus.focusMode = "location" =>
               LET i == findLocation(locs, focus.focusedLocationId[1])
               IN  /\ i # 0
                   /\ nav.next = <<locs[IF i = n THEN 1 ELSE i + 1].id>>
                   /\ nav.prev = <<locs[IF i = 1 THEN n ELSE i - 1].id>>
        /\ focus.focusMode = "memory" =>
               LET i == findLocation(locs, focus.focusedLocationId[1])
                   count == Len(locs[i].memories)
                   k == focus.focusedMemoryIndex[1]
               IN  /\ nav.next = <<locs[i].id \o "::mem-"
                                     \o ToString(IF k = count - 1 THEN 0 ELSE k + 1)>>
                   /\ nav.prev = <<locs[i].id \o "::mem-"
                                     \o ToString(IF k = 0 THEN count - 1 ELSE k - 1)>>
        /\ HudShown(focus) =>
               LET afterNext == focusNavigated(focus, nav.next[1])
                   afterPrev == focusNavigated(focus, nav.prev[1])
               IN  /\ focusNavigated(afterNext, NavOf(afterNext).prev[1]) = focus
                   /\ focusNavigated(afterPrev, NavOf(afterPrev).next[1]) = focus

\* NEXT has wrapped from the last of three locations to the first
NavIsCyclicWitness ==
    /\ Len(data.locations) = 3
    /\ camera.lastEvent = "next"
    /\ camera.focusBefore = FocusState("location", <<data.locations[3].id>>, <<>>)
    /\ focus = FocusState("location", <<data.locations[1].id>>, <<>>)
    /\ camera.pendingFocusId = <<data.locations[1].id>>

\* frames keep arriving with deltaTime > 0
SpecSceneLive == SpecScene /\ WF_vars(Frame(100))

\* a step of animate: it handles no event
FrameStep == camera'.events = camera.events

\* the frame finds a request for an existing card
StartsTransition ==
    /\ ~Falsy(camera.pendingFocusId)
    /\ findCard(cards, camera.pendingFocusId[1]) # 0

\* a frame leaves no request pending; a request for an existing card starts
\* a transition from the camera's position that has advanced from t = 0 by
\* this frame's deltaTime; a request for an unknown id starts none
RequestConsumed ==
    FrameStep =>
        /\ camera'.pendingFocusId = <<>>
        /\ StartsTransition =>
               /\ camera'.focusState.active
               /\ camera'.focusState.fromPos = camera.position
               /\ camera'.focusState.toPos =
                      focusPose(cards.cards[findCard(cards, camera.pendingFocusId[1])]).toPos
               /\ \E deltaTime \in FrameDeltaTimes :
                      camera'.focusState.t = transitionT(0, deltaTime)
        /\ ~StartsTransition =>
               /\ camera'.focusState.fromPos = camera.focusState.fromPos
               /\ camera'.focusState.toPos = camera.focusState.toPos
               /\ camera'.focusState.active => camera.focusState.active
               /\ camera'.focusState.t >= camera.focusState.t

\* t stays in [0, 1]
TransitionTInUnit == 0 <= camera.focusState.t /\ camera.focusState.t <= Scale

\* a transition has ended with the camera at its target position
TransitionDone ==
    /\ ~camera.focusState.active
    /\ camera.position = camera.focusState.toPos

\* C30: the next frame consumes a queued request: pendingFocusId is null
\* after it, a request for an existing card starts a transition at t = 0 and
\* one for an unknown id is dropped without a transition; t stays in [0, 1]
\* and never decreases during a transition; with frames of deltaTime > 0
\* arriving, a transition eventually ends with active = false and the camera
\* at the target position
FocusRequestServed ==
    /\ [][RequestConsumed]_vars
    /\ []TransitionTInUnit
    /\ camera.focusState.active ~> TransitionDone

\* the safety part of C30 alone
FocusRequestSafe == [][RequestConsumed]_vars /\ []TransitionTInUnit

\* a transition is under way towards a hub's card
TowardsHub ==
    /\ camera.focusState.active
    /\ camera.selected # <<>>
    /\ findCard(cards, camera.selected[1]) # 0
    /\ Falsy(cards.cards[findCard(cards, camera.selected[1])].parentLocationId)

TowardsMemory ==
    /\ camera.focusState.active
    /\ camera.selected # <<>>
    /\ findCard(cards, camera.selected[1]) # 0
    /\ ~Falsy(cards.cards[findCard(cards, camera.selected[1])].parentLocationId)

HubTransitionEnds == TowardsHub ~> (TransitionDone \/ TowardsMemory)

====
